---- MODULE Spec2Model ----
(***************************************************************************)
(* Model of the BFV ingestion route  src/app/api/bfv/ics/route.ts  (the    *)
(* GET handler, its validation, the primary fetch, the "Mehr anzeigen"     *)
(* pagination loader, the HTML extractor and the calendar serializer) and  *)
(* of the client pages: src/app/bfv/page.tsx (calendar parser, worker pool *)
(* mapLimit, home and away marking), src/app/calendar/page.tsx (layout of  *)
(* overlapping bookings) and src/app/approve/page.tsx (setStatus).  Both   *)
(* variants of route.ts (lines 1-536 and lines 538-1080) have the same     *)
(* validation, fetch, loader and serializer code; line numbers below refer *)
(* to the first variant.                                                   *)
(*                                                                         *)
(* Strings are sequences of one-character strings.  A URL string is a      *)
(* record  [kind, protocol, hostname, path, query]  : kind "url" for a     *)
(* string the WHATWG URL parser accepts, "garbage" for one it rejects,     *)
(* "empty" for the empty string and "null" for an absent query parameter.  *)
(***************************************************************************)
EXTENDS Integers, Sequences, FiniteSets, TLC

(***************************************************************************)
(* Characters and strings                                                  *)
(***************************************************************************)
UPPER == <<"A","B","C","D","E","F","G","H","I","J","K","L","M",
           "N","O","P","Q","R","S","T","U","V","W","X","Y","Z">>
LOWER == <<"a","b","c","d","e","f","g","h","i","j","k","l","m",
           "n","o","p","q","r","s","t","u","v","w","x","y","z">>
DIGITS == <<"0","1","2","3","4","5","6","7","8","9">>

Range(s) == { s[i] : i \in 1..Len(s) }

LowerChar(c) ==
    IF \E i \in 1..26 : UPPER[i] = c
    THEN LOWER[CHOOSE i \in 1..26 : UPPER[i] = c]
    ELSE c

\* String.prototype.toLowerCase
toLowerCase(s) == [i \in 1..Len(s) |-> LowerChar(s[i])]

\* String.prototype.endsWith
endsWith(s, suffix) ==
    /\ Len(s) >= Len(suffix)
    /\ SubSeq(s, Len(s) - Len(suffix) + 1, Len(s)) = suffix

\* a case-insensitive, unanchored regular-expression test for a literal
ContainsIgnoreCase(s, lit) ==
    LET t == toLowerCase(s)
        l == toLowerCase(lit)
    IN  \E i \in 1..(Len(s) - Len(lit) + 1) : SubSeq(t, i, i + Len(lit) - 1) = l

\* String.prototype.slice(0, n) for n >= 0
slice0(s, n) == SubSeq(s, 1, IF Len(s) < n THEN Len(s) ELSE n)

\* a string of n copies of the character c
Fill(n, c) == [i \in 1..n |-> c]

\* Array.prototype.join with a one-character separator
RECURSIVE join(_, _)
join(parts, sep) ==
    IF Len(parts) = 0 THEN <<>>
    ELSE IF Len(parts) = 1 THEN parts[1]
    ELSE parts[1] \o <<sep>> \o join(Tail(parts), sep)

WhiteSpace == {" ", "\t", "\n", "\r"}

\* s without its leading and trailing characters of the set cs
RECURSIVE strip(_, _)
strip(s, cs) ==
    IF Len(s) > 0 /\ s[1] \in cs THEN strip(Tail(s), cs)
    ELSE IF Len(s) > 0 /\ s[Len(s)] \in cs THEN strip(SubSeq(s, 1, Len(s) - 1), cs)
    ELSE s

\* String.prototype.trim
trim(s) == strip(s, WhiteSpace)

\* String.prototype.trimStart
RECURSIVE trimStart(_)
trimStart(s) == IF Len(s) > 0 /\ s[1] \in WhiteSpace THEN trimStart(Tail(s)) ELSE s

\* replace(/c/g, rep) for one character c
RECURSIVE replaceAll(_, _, _)
replaceAll(s, c, rep) ==
    IF Len(s) = 0 THEN <<>>
    ELSE (IF s[1] = c THEN rep ELSE <<s[1]>>) \o replaceAll(Tail(s), c, rep)

\* replace(/[cs]+/g, " ").trim(): every run of characters of cs becomes one blank
RECURSIVE squash(_, _)
squash(s, cs) ==
    LET t == strip(s, cs \cup {" "})
    IN  IF Len(t) <= 1 THEN t
        ELSE IF t[2] \in cs \cup {" "} THEN <<t[1], " ">> \o squash(Tail(t), cs)
        ELSE <<t[1]>> \o squash(Tail(t), cs)

\* String.prototype.startsWith
startsWith(s, prefix) ==
    Len(s) >= Len(prefix) /\ SubSeq(s, 1, Len(prefix)) = prefix

\* String.prototype.includes
includes(s, sub) ==
    \E i \in 1..(Len(s) - Len(sub) + 1) : SubSeq(s, i, i + Len(sub) - 1) = sub

\* String.prototype.indexOf(sep, k - 1) + 1: the first place from k on where
\* sep occurs, 0 when there is none
indexOf(s, sep, k) ==
    LET hits == { i \in k..(Len(s) - Len(sep) + 1) : SubSeq(s, i, i + Len(sep) - 1) = sep }
    IN  IF hits = {} THEN 0 ELSE CHOOSE i \in hits : \A j \in hits : i <= j

\* String.prototype.split with a non-empty separator
RECURSIVE split(_, _)
split(s, sep) ==
    LET i == indexOf(s, sep, 1)
    IN  IF i = 0 THEN <<s>>
        ELSE <<SubSeq(s, 1, i - 1)>> \o split(SubSeq(s, i + Len(sep), Len(s)), sep)

(***************************************************************************)
(* Numbers.  A JavaScript number is [nan, val] with val an integer; the    *)
(* strings the model converts are over digits, sign, blank and letters, a  *)
(* range on which Number() yields an integer or NaN.                       *)
(***************************************************************************)
NaN == [nan |-> TRUE, val |-> 0]
Num(n) == [nan |-> FALSE, val |-> n]

DigitVal(c) == (CHOOSE i \in 1..10 : DIGITS[i] = c) - 1
IsDigit(c) == \E i \in 1..10 : DIGITS[i] = c

RECURSIVE DigitsVal(_)
DigitsVal(s) ==
    IF Len(s) = 0 THEN 0
    ELSE 10 * DigitsVal(SubSeq(s, 1, Len(s) - 1)) + DigitVal(s[Len(s)])

RECURSIVE TrimLeft(_)
TrimLeft(s) == IF Len(s) > 0 /\ s[1] = " " THEN TrimLeft(Tail(s)) ELSE s
RECURSIVE TrimRight(_)
TrimRight(s) ==
    IF Len(s) > 0 /\ s[Len(s)] = " " THEN TrimRight(SubSeq(s, 1, Len(s) - 1)) ELSE s

\* Number(string): StringToNumber of ECMAScript
Number(s) ==
    LET t == TrimRight(TrimLeft(s))
        signed == Len(t) > 0 /\ t[1] \in {"-", "+"}
        body == IF signed THEN Tail(t) ELSE t
    IN  IF Len(t) = 0 THEN Num(0)
        ELSE IF Len(body) > 0 /\ \A i \in 1..Len(body) : IsDigit(body[i])
             THEN Num(IF signed /\ t[1] = "-" THEN 0 - DigitsVal(body) ELSE DigitsVal(body))
             ELSE NaN

\* the truthiness of a number: NaN, +0 and -0 are falsy
TruthyNumber(n) == ~n.nan /\ n.val # 0

RECURSIVE NatToString(_)
NatToString(n) ==
    IF n < 10 THEN <<DIGITS[n + 1]>>
    ELSE NatToString(n \div 10) \o <<DIGITS[(n % 10) + 1]>>

\* String(number) for an integer or NaN
String(n) ==
    IF n.nan THEN <<"N","a","N">>
    ELSE IF n.val < 0 THEN <<"-">> \o NatToString(0 - n.val)
    ELSE NatToString(n.val)

\* the product of two numbers
Times(a, b) == IF a.nan \/ b.nan THEN NaN ELSE Num(a.val * b.val)

(***************************************************************************)
(* URLs                                                                    *)
(***************************************************************************)
\* schemes the URL standard calls special: their host is parsed and lower-cased
SpecialProtocols == {"https:", "http:", "ftp:", "ws:", "wss:"}

Url(protocol, hostname, path, query) ==
    [kind |-> "url", protocol |-> protocol, hostname |-> hostname,
     path |-> path, query |-> query]
NoUrl == [kind |-> "null", protocol |-> "", hostname |-> <<>>, path |-> <<>>, query |-> <<>>]
EmptyString == [NoUrl EXCEPT !.kind = "empty"]
GarbageString == [NoUrl EXCEPT !.kind = "garbage"]

\* a string is truthy unless it is null or empty
Truthy(str) == str.kind \notin {"null", "empty"}

\* new URL(str): throws on a string that is no URL, lower-cases the host
NewURL(str) ==
    IF str.kind # "url" THEN [threw |-> TRUE, u |-> NoUrl]
    ELSE [threw |-> FALSE,
          u |-> IF str.protocol \in SpecialProtocols
                THEN [str EXCEPT !.hostname = toLowerCase(str.hostname)]
                ELSE str]

\* URLSearchParams.get: the first value of the name, or null
searchParamsGet(query, name) ==
    IF \E i \in 1..Len(query) : query[i].k = name
    THEN [null |-> FALSE,
          v |-> query[CHOOSE i \in 1..Len(query) :
                        /\ query[i].k = name
                        /\ \A j \in 1..(i - 1) : query[j].k # name].v]
    ELSE [null |-> TRUE, v |-> <<>>]

\* URLSearchParams.set: overwrite the first pair of the name and drop the
\* others, or append a new pair
searchParamsSet(query, name, value) ==
    IF \E i \in 1..Len(query) : query[i].k = name
    THEN LET first == CHOOSE i \in 1..Len(query) :
                        /\ query[i].k = name
                        /\ \A j \in 1..(i - 1) : query[j].k # name
             keep == SelectSeq([i \in 1..Len(query) |-> [i |-> i, p |-> query[i]]],
                               LAMBDA e : e.i = first \/ e.p.k # name)
         IN  [i \in 1..Len(keep) |->
                IF keep[i].i = first THEN [k |-> name, v |-> value] ELSE keep[i].p]
    ELSE Append(query, [k |-> name, v |-> value])

(***************************************************************************)
(* route.ts: helpers                                                       *)
(***************************************************************************)
DotBfvDe == <<".","b","f","v",".","d","e">>
BfvDe == <<"b","f","v",".","d","e">>
ServiceBfvDe == <<"s","e","r","v","i","c","e">> \o DotBfvDe
AppBfvDe == <<"a","p","p">> \o DotBfvDe
DotAppBfvDe == <<".","a","p","p">> \o DotBfvDe
WwwBfvDe == <<"w","w","w">> \o DotBfvDe

\* a host check that forgets the dot before the parent domain
isAllowedHost_nodot(host) ==
    LET h == toLowerCase(host)
    IN  h = ServiceBfvDe \/ h = BfvDe \/ endsWith(h, BfvDe)
        \/ h = AppBfvDe \/ endsWith(h, DotAppBfvDe)

isAllowedHost(host) ==
    LET h == toLowerCase(host)
    IN  \/ h = ServiceBfvDe
        \/ h = BfvDe
        \/ endsWith(h, DotBfvDe)
        \/ h = AppBfvDe
        \/ endsWith(h, DotAppBfvDe)

BeginVcalendar == <<"B","E","G","I","N",":","V","C","A","L","E","N","D","A","R">>

looksLikeIcs(text) == ContainsIgnoreCase(text, BeginVcalendar)

\* fetchText once fetch() has resolved with res: text() failing yields ""
fetchText(res) ==
    [ok |-> res.status \in 200..299,
     status |-> res.status,
     text |-> IF res.bodyFails THEN <<>> ELSE res.body]

TeamIdMinLen == 24
TeamIdMaxLen == 32
TeamIdChars == Range(DIGITS) \cup Range(UPPER)

\* /\/([0-9A-Z]{24,32})\/?$/ on the serialized URL: the last path segment
\* (an empty last segment is a trailing slash), when no query follows it
extractTeamIdFromBfvTeamUrl(teamUrl) ==
    LET p == IF Len(teamUrl.path) > 1 /\ Len(teamUrl.path[Len(teamUrl.path)]) = 0
             THEN SubSeq(teamUrl.path, 1, Len(teamUrl.path) - 1)
             ELSE teamUrl.path
    IN  IF /\ Len(teamUrl.query) = 0
           /\ Len(p) > 0
           /\ Len(p[Len(p)]) >= TeamIdMinLen
           /\ Len(p[Len(p)]) <= TeamIdMaxLen
           /\ Range(p[Len(p)]) \subseteq TeamIdChars
        THEN p[Len(p)]
        ELSE <<>>

buildDefaultMoreUrl(teamId) ==
    Url("https:", WwwBfvDe,
        << <<"p","a","r","t","i","a","l">>,
           <<"m","a","n","n","s","c","h","a","f","t","s","p","r","o","f","i","l">>,
           <<"s","p","i","e","l","p","l","a","n">>,
           teamId,
           <<"n","a","e","c","h","s","t","e">> >>,
        << [k |-> "wettbewerbsart", v |-> <<"1">>],
           [k |-> "spieltyp", v |-> <<"A","L","L","E">>],
           [k |-> "from", v |-> <<"0">>],
           [k |-> "size", v |-> <<"5">>] >>)

setFrom(url, from) ==
    LET u == NewURL(url).u
    IN  [u EXCEPT !.query = searchParamsSet(u.query, "from", String(from))]

\* const size = Number(u0.searchParams.get("size") || "5") || 5
loaderSize(moreUrl) ==
    LET u0 == NewURL(moreUrl).u
        got == searchParamsGet(u0.query, "size")
        n == Number(IF got.null \/ Len(got.v) = 0 THEN <<"5">> ELSE got.v)
    IN  IF TruthyNumber(n) THEN n ELSE Num(5)

maxPages == 12
MinPageLength == 50

\* crypto.createHash("sha1").update(text).digest("hex"), collision-free: one
\* digest character per character of the text, none of them a character that
\* text escaping or trimming touches
sha1(text) == [i \in 1..Len(text) |-> "h" \o text[i]]

\* a loader that only stops on a failed or short page
loaderBreaks_norepeat(ft, seenHashes) ==
    ~ft.ok \/ Len(ft.text) = 0 \/ Len(ft.text) < MinPageLength

\* a loader without stop conditions
loaderBreaks_never(ft, seenHashes) == FALSE

\* a loader that goes on to the next page after a non-2xx answer
loaderBreaks_onfail(ft, seenHashes) ==
    \/ Len(ft.text) = 0 \/ Len(ft.text) < MinPageLength
    \/ sha1(ft.text) \in seenHashes

\* if (!ok || !text || text.length < 50) break; if (seenHashes.has(h)) break;
loaderBreaks(ft, seenHashes) ==
    \/ ~ft.ok \/ Len(ft.text) = 0 \/ Len(ft.text) < MinPageLength
    \/ sha1(ft.text) \in seenHashes

(***************************************************************************)
(* Responses of the handler                                                *)
(***************************************************************************)
NoInfo == [baseHtmlLen |-> 0, partialLen |-> 0, combinedHtmlLen |-> 0,
           hasMoreUrl |-> FALSE, moreUrlAuto |-> FALSE]
NoResponse == [kind |-> "none", status |-> 0, error |-> "", upstream |-> 0,
               text |-> <<>>, via |-> "", info |-> NoInfo]

\* NextResponse.json({ error }, { status })
JsonError(status, error) ==
    [NoResponse EXCEPT !.kind = "json", !.status = status, !.error = error]

MissingUrlResponse == JsonError(400, "Missing url query param")
InvalidUrlResponse == JsonError(400, "Invalid url")
OnlyHttpsResponse == JsonError(400, "Only https allowed")

\* a host rejection that reuses the scheme rejection
HostNotAllowedResponse_same == JsonError(400, "Only https allowed")

HostNotAllowedResponse == JsonError(403, "Host not allowed")

SnippetLength == 800

\* an error body that embeds the whole upstream text
BfvFetchFailedResponse_whole(status, text) ==
    [JsonError(502, "BFV fetch failed") EXCEPT !.upstream = status, !.text = text]

\* { error: "BFV fetch failed", status, text: (text || "").slice(0, 800) }, 502
BfvFetchFailedResponse(status, text) ==
    [JsonError(502, "BFV fetch failed") EXCEPT
        !.upstream = status, !.text = slice0(text, SnippetLength)]

\* new NextResponse(text, { status: 200, "content-type": "text/calendar" })
PassthroughResponse(text) ==
    [NoResponse EXCEPT !.kind = "calendar", !.status = 200, !.text = text,
                       !.via = "passthrough"]

\* new NextResponse(buildIcs(parsed.events), ...): the document is built from
\* the events of extractorInput
BuiltIcsResponse ==
    [NoResponse EXCEPT !.kind = "calendar", !.status = 200, !.via = "buildIcs"]

\* NextResponse.json({ baseHtmlLen, partialLen, ... })
DebugResponse(info) ==
    [NoResponse EXCEPT !.kind = "debug", !.status = 200, !.via = "debug", !.info = info]

\* a rejection nothing catches leaves GET: the framework answers 500
UnhandledException ==
    [NoResponse EXCEPT !.kind = "exception", !.status = 500]

(***************************************************************************)
(* Inputs: request parameters and upstream answers                         *)
(***************************************************************************)
HtmlLen == 20
BigBodyLen == 1300

Seg(c) == <<c>>
TeamId == Fill(TeamIdMinLen - 1, "A") \o <<"7">>
XIcs == <<"x",".","i","c","s">>
EvilExampleCom == <<"e","v","i","l",".","e","x","a","m","p","l","e",".","c","o","m">>
EvilBfvDe == <<"e","v","i","l">> \o BfvDe
BfvDeEvilCom == BfvDe \o <<".","e","v","i","l",".","c","o","m">>
WwwBfvDeUpper == <<"W","W","W",".","B","F","V",".","D","E">>

UrlParams ==
    { NoUrl, EmptyString, GarbageString,
      Url("https:", EvilExampleCom, <<XIcs>>, <<>>),
      Url("https:", EvilBfvDe, <<XIcs>>, <<>>),
      Url("https:", BfvDeEvilCom, <<TeamId>>, <<>>),
      Url("http:", WwwBfvDe, <<XIcs>>, <<>>),
      Url("webcal:", ServiceBfvDe, <<XIcs>>, <<>>),
      Url("https:", ServiceBfvDe, <<XIcs>>, <<>>),
      Url("https:", WwwBfvDeUpper, <<Seg("m"), TeamId>>, <<>>) }

Partial == <<Seg("p")>>
SizeQuery(v) == << [k |-> "size", v |-> v] >>

MoreUrlParams ==
    { NoUrl, GarbageString,
      Url("https:", WwwBfvDe, Partial, <<>>),
      Url("https:", WwwBfvDe, Partial, SizeQuery(<<>>)),
      Url("https:", WwwBfvDe, Partial, SizeQuery(<<"3">>)),
      Url("https:", WwwBfvDe, Partial, SizeQuery(<<"0">>)),
      Url("https:", WwwBfvDe, Partial, SizeQuery(<<"-","3">>)),
      Url("https:", WwwBfvDe, Partial, SizeQuery(<<"a">>)),
      Url("https:", AppBfvDe, Partial,
          << [k |-> "from", v |-> <<"1","0">>], [k |-> "size", v |-> <<" ","1","0">>],
             [k |-> "from", v |-> <<"7">>] >>),
      Url("https:", EvilExampleCom, Partial, SizeQuery(<<"5">>)),
      Url("http:", WwwBfvDe, Partial, SizeQuery(<<"5">>)) }

\* what fetch() settles with
Res(status, body) == [rejects |-> FALSE, status |-> status, body |-> body, bodyFails |-> FALSE]
Rejected == [rejects |-> TRUE, status |-> 0, body |-> <<>>, bodyFails |-> FALSE]

IcsBody == Fill(3, "x") \o <<"b","e","g","i","n",":","V","C","A","L","E","N","D","A","R">>
           \o Fill(3, "x")

PrimaryResults ==
    { Rejected,
      Res(200, <<>>),
      Res(200, Fill(HtmlLen, "h")),
      Res(200, IcsBody),
      [Res(200, IcsBody) EXCEPT !.bodyFails = TRUE],
      Res(404, <<>>),
      Res(404, IcsBody),
      Res(500, Fill(SnippetLength, "e")),
      Res(503, Fill(BigBodyLen, "e")) }

\* the body only page number `page` returns
FreshBody(page) == Fill(MinPageLength + page, "p")

PageResults(page, parts) ==
    { Rejected,
      Res(200, <<>>),
      Res(200, Fill(MinPageLength - 1, "s")),
      Res(200, FreshBody(page)),
      [Res(200, FreshBody(page)) EXCEPT !.bodyFails = TRUE],
      Res(404, FreshBody(page)) }
    \cup { Res(200, parts[i]) : i \in 1..Len(parts) }

(***************************************************************************)
(* State                                                                   *)
(*   pc              where GET is: "idle", "awaitPrimary" (line 459),      *)
(*                   "awaitPage" (line 390), "done"                        *)
(*   req             the query parameters url, moreUrl, debug              *)
(*   loc             the locals of GET                                     *)
(*   ld              the locals of loadBfvPartialSpielplanAll              *)
(*   net             the fetch() calls of this request, in order           *)
(*   resp            what GET returned                                     *)
(*   extractorInput  the arguments parseAllFromHtml was called with        *)
(* A behaviour is one request: the handler keeps nothing between requests. *)
(*                                                                         *)
(* The calls of parseAllFromHtml (SpecExtractor):                          *)
(*   ex              the arguments and the locals of the latest call       *)
(*   exLog           the number of calls so far, the first call, and       *)
(*                   whether a later call had other arguments              *)
(* The calendar document on its way to the client (SpecIcs):               *)
(*   doc             the document the route answered with: its text, and   *)
(*                   what it was made from (the events handed to buildIcs, *)
(*                   or the VEVENT blocks of an upstream calendar and, for *)
(*                   a folded one, the same text with no line folded)      *)
(*   games           what parseIcs made of it                              *)
(***************************************************************************)
VARIABLES pc, req, loc, ld, net, resp, extractorInput, ex, exLog, doc, games,
          ml, hm, lay, ap

routeVars == <<pc, req, loc, ld, net, resp, extractorInput>>
extractorVars == <<ex, exLog>>
icsVars == <<doc, games>>
pageVars == <<ml, hm, lay, ap>>
vars == <<routeVars, extractorVars, icsVars, pageVars>>

NoRequest == [url |-> NoUrl, moreUrl |-> NoUrl, debug |-> FALSE]
NoLocals == [u |-> NoUrl, text |-> <<>>, moreUrl |-> EmptyString, moreUrlAuto |-> FALSE,
             combinedHtml |-> <<>>, partialLen |-> 0]
NoLoader == [size |-> Num(0), page |-> 0, parts |-> <<>>, seenHashes |-> {}]
NotExtracted == [called |-> FALSE, html |-> <<>>, teamUrl |-> NoUrl]
NoLocalsYet == [events |-> <<>>, seen |-> {}, matches |-> 0,
                skippedSeasonHistory |-> 0, skippedDupes |-> 0]
NoCall == [html |-> <<>>, teamUrl |-> NoUrl, st |-> NoLocalsYet]
NoDoc == [via |-> "none", text |-> <<>>, events |-> <<>>, blocks |-> <<>>,
          unfolded |-> <<>>, parts |-> <<>>]
NotLoaded == [loaded |-> FALSE, list |-> <<>>]

\* the page components before anything is loaded
NoPool == [phase |-> "idle", via |-> "", items |-> <<>>, limit |-> 0, idx |-> 0,
           workers |-> <<>>, cb |-> <<>>, results |-> <<>>, calls |-> <<>>,
           promise |-> "none"]
NoScreen == [phase |-> "idle", role |-> "", bookings |-> <<>>, db |-> <<>>,
             busyId |-> 0, calls |-> <<>>, loads |-> {}]

Pending(url, phase, page) ==
    [url |-> url, phase |-> phase, page |-> page, state |-> "pending",
     ok |-> FALSE, status |-> 0, text |-> <<>>]

\* the log entry of a fetch once it has settled with res
Settle(entry, res) ==
    IF res.rejects THEN [entry EXCEPT !.state = "rejected"]
    ELSE [entry EXCEPT !.state = "settled", !.ok = fetchText(res).ok,
                       !.status = fetchText(res).status, !.text = fetchText(res).text]

Settled(res) == [net EXCEPT ![Len(net)] = Settle(@, res)]

Init ==
    /\ pc = "idle"
    /\ req = NoRequest
    /\ loc = NoLocals
    /\ ld = NoLoader
    /\ net = <<>>
    /\ resp = NoResponse
    /\ extractorInput = NotExtracted
    /\ ex = NoCall
    /\ exLog = [calls |-> 0, first |-> NoCall, mixed |-> FALSE]
    /\ doc = NoDoc
    /\ games = NotLoaded
    /\ ml = NoPool
    /\ hm = [phase |-> "idle", mode |-> "", clubName |-> <<>>, teamName |-> <<>>,
             homeOnly |-> FALSE, dayStr |-> 0, parsed |-> <<>>, marked |-> <<>>,
             shown |-> <<>>]
    /\ lay = [phase |-> "idle", boxes |-> <<>>, pos |-> <<>>]
    /\ ap = NoScreen

(***************************************************************************)
(* GET, lines 436-459: validation, up to the primary fetch                 *)
(***************************************************************************)
\* the answer of the validation, NoResponse when the url passes
validate(url) ==
    IF ~Truthy(url) THEN MissingUrlResponse
    ELSE IF NewURL(url).threw THEN InvalidUrlResponse
    ELSE IF NewURL(url).u.protocol # "https:" THEN OnlyHttpsResponse
    ELSE IF ~isAllowedHost(NewURL(url).u.hostname) THEN HostNotAllowedResponse
    ELSE NoResponse

GET(url, moreUrlParam, debug) ==
    /\ pc = "idle"
    /\ UNCHANGED <<extractorVars, icsVars, pageVars>>
    /\ req' = [url |-> url, moreUrl |-> moreUrlParam, debug |-> debug]
    /\ ld' = NoLoader
    /\ extractorInput' = NotExtracted
    /\ IF validate(url) # NoResponse
       THEN /\ resp' = validate(url)
            /\ pc' = "done"
            /\ net' = <<>>
            /\ loc' = [NoLocals EXCEPT !.u = NewURL(url).u]
       ELSE /\ resp' = NoResponse
            /\ pc' = "awaitPrimary"
            /\ net' = <<Pending(NewURL(url).u, "primary", 0)>>
            /\ loc' = [NoLocals EXCEPT
                         !.u = NewURL(url).u,
                         !.moreUrl = IF Truthy(moreUrlParam) THEN moreUrlParam
                                     ELSE EmptyString]

(***************************************************************************)
(* GET, lines 478-535: the load-more URL, the extractor call, the answer   *)
(***************************************************************************)
\* lines 479-488: [moreUrl, moreUrlAuto]
autoMoreUrl(moreUrlParam, u) ==
    IF Truthy(moreUrlParam) THEN [moreUrl |-> moreUrlParam, moreUrlAuto |-> FALSE]
    ELSE IF Len(extractTeamIdFromBfvTeamUrl(u)) > 0
         THEN [moreUrl |-> buildDefaultMoreUrl(extractTeamIdFromBfvTeamUrl(u)),
               moreUrlAuto |-> TRUE]
         ELSE [moreUrl |-> moreUrlParam, moreUrlAuto |-> FALSE]

\* a guard that loads whatever parses
paginates_anyhost(moreUrl) ==
    Truthy(moreUrl) /\ ~NewURL(moreUrl).threw

\* lines 493-496: the loader runs for a parseable moreUrl on an allowed host
paginates(moreUrl) ==
    /\ Truthy(moreUrl)
    /\ ~NewURL(moreUrl).threw
    /\ isAllowedHost(NewURL(moreUrl).u.hostname)

\* lines 498-499, from what the loader returned
combine(text, parts) ==
    LET partial == join(parts, "\n")
    IN  [partialLen |-> Len(partial),
         combinedHtml |-> IF Len(partial) > 0 THEN text \o <<"\n">> \o partial ELSE text]

\* lines 506-535: parseAllFromHtml(combinedHtml, u.toString()), then the
\* debug payload or the calendar document
Succeed(l) ==
    /\ loc' = l
    /\ extractorInput' = [called |-> TRUE, html |-> l.combinedHtml, teamUrl |-> l.u]
    /\ resp' = IF req.debug
               THEN DebugResponse([baseHtmlLen |-> Len(l.text),
                                   partialLen |-> l.partialLen,
                                   combinedHtmlLen |-> Len(l.combinedHtml),
                                   hasMoreUrl |-> Truthy(l.moreUrl),
                                   moreUrlAuto |-> l.moreUrlAuto])
               ELSE BuiltIcsResponse
    /\ pc' = "done"

\* the primary fetch settles: lines 459-497, and 380-390 when the loader starts
PrimarySettles(res) ==
    /\ pc = "awaitPrimary"
    /\ UNCHANGED <<req, extractorVars, icsVars, pageVars>>
    /\ LET ft == fetchText(res)
           more == autoMoreUrl(loc.moreUrl, loc.u)
           l == [loc EXCEPT !.text = ft.text, !.moreUrl = more.moreUrl,
                            !.moreUrlAuto = more.moreUrlAuto,
                            !.combinedHtml = ft.text]
       IN  IF res.rejects
           THEN /\ resp' = UnhandledException
                /\ pc' = "done"
                /\ net' = Settled(res)
                /\ UNCHANGED <<loc, ld, extractorInput>>
           ELSE IF ~ft.ok
           THEN /\ resp' = BfvFetchFailedResponse(ft.status, ft.text)
                /\ pc' = "done"
                /\ net' = Settled(res)
                /\ loc' = [loc EXCEPT !.text = ft.text]
                /\ UNCHANGED <<ld, extractorInput>>
           ELSE IF looksLikeIcs(ft.text)
           THEN /\ resp' = PassthroughResponse(ft.text)
                /\ pc' = "done"
                /\ net' = Settled(res)
                /\ loc' = [loc EXCEPT !.text = ft.text]
                /\ UNCHANGED <<ld, extractorInput>>
           ELSE IF paginates(more.moreUrl)
           THEN /\ ld' = [size |-> loaderSize(more.moreUrl), page |-> 0,
                          parts |-> <<>>, seenHashes |-> {}]
                /\ net' = Append(Settled(res),
                                 Pending(setFrom(more.moreUrl,
                                                 Times(Num(0), loaderSize(more.moreUrl))),
                                         "page", 0))
                /\ loc' = l
                /\ pc' = "awaitPage"
                /\ UNCHANGED <<resp, extractorInput>>
           ELSE /\ net' = Settled(res)
                /\ UNCHANGED ld
                /\ Succeed(l)

(***************************************************************************)
(* loadBfvPartialSpielplanAll, lines 386-400, and GET from line 498        *)
(***************************************************************************)
PageSettles(res) ==
    /\ pc = "awaitPage"
    /\ UNCHANGED <<req, extractorVars, icsVars, pageVars>>
    /\ LET ft == fetchText(res)
           parts == Append(ld.parts, ft.text)
           page == ld.page + 1
       IN  IF res.rejects
           THEN \* fetchText throws out of the loader into the catch of line 501
                /\ net' = Settled(res)
                /\ UNCHANGED ld
                /\ Succeed(loc)
           ELSE IF loaderBreaks(ft, ld.seenHashes)
           THEN /\ net' = Settled(res)
                /\ UNCHANGED ld
                /\ Succeed([loc EXCEPT
                              !.partialLen = combine(loc.text, ld.parts).partialLen,
                              !.combinedHtml = combine(loc.text, ld.parts).combinedHtml])
           ELSE IF page < maxPages
           THEN /\ ld' = [ld EXCEPT !.page = page, !.parts = parts,
                                    !.seenHashes = @ \cup {sha1(ft.text)}]
                /\ net' = Append(Settled(res),
                                 Pending(setFrom(loc.moreUrl, Times(Num(page), ld.size)),
                                         "page", page))
                /\ UNCHANGED <<pc, loc, resp, extractorInput>>
           ELSE /\ ld' = [ld EXCEPT !.page = page, !.parts = parts,
                                    !.seenHashes = @ \cup {sha1(ft.text)}]
                /\ net' = Settled(res)
                /\ Succeed([loc EXCEPT
                              !.partialLen = combine(loc.text, parts).partialLen,
                              !.combinedHtml = combine(loc.text, parts).combinedHtml])

Next ==
    \/ \E url \in UrlParams, moreUrlParam \in MoreUrlParams, debug \in BOOLEAN :
          GET(url, moreUrlParam, debug)
    \/ \E res \in PrimaryResults : PrimarySettles(res)
    \/ \E res \in PageResults(ld.page, ld.parts) : PageSettles(res)

Spec == Init /\ [][Next]_vars

(***************************************************************************)
(* Properties                                                              *)
(***************************************************************************)
\* the allow-list in the words of the specification: bfv.de, service.bfv.de,
\* app.bfv.de, or a subdomain of bfv.de
OnAllowList(hostname) ==
    LET h == toLowerCase(hostname)
    IN  h \in {BfvDe, ServiceBfvDe, AppBfvDe} \/ endsWith(h, DotBfvDe)

\* the fetches of the pagination loader, in order
PageFetches == SelectSeq(net, LAMBDA e : e.phase = "page")

PrimaryFailed ==
    /\ Len(net) >= 1
    /\ \/ net[1].state = "rejected"
       \/ net[1].state = "settled" /\ ~net[1].ok

Succeeded == resp.kind \in {"calendar", "debug"} /\ resp.status = 200

\* C1: a request whose url is an https URL with a host that is not on the
\* allow-list is answered 403 "Host not allowed" and issues no fetch at all.
C1_HostNotAllowedNoFetch ==
    (/\ req.url.kind = "url"
     /\ req.url.protocol = "https:"
     /\ ~OnAllowList(req.url.hostname))
    => /\ pc = "done"
       /\ resp = JsonError(403, "Host not allowed")
       /\ net = <<>>

C1_Witness ==
    /\ pc = "done"
    /\ req.url.hostname = EvilBfvDe
    /\ resp.status = 403
    /\ net = <<>>

\* C2 (as claimed): every URL fetched during a request, the primary one and
\* every pagination page, is https and has an allow-listed host.
C2_EveryFetchHttpsAllowed ==
    \A i \in 1..Len(net) :
        /\ net[i].url.protocol = "https:"
        /\ OnAllowList(net[i].url.hostname)

\* the failure class of a url parameter, in the words of the specification
FailureClass(url) ==
    IF url.kind \in {"null", "empty"} THEN "MissingParameter"
    ELSE IF url.kind = "garbage" THEN "InvalidUrl"
    ELSE IF url.protocol # "https:" THEN "UnsupportedScheme"
    ELSE IF ~OnAllowList(url.hostname) THEN "HostNotAllowed"
    ELSE "none"

Outcome(r) == <<r.status, r.error>>

\* the answers the handler gives when the primary fetch fails
UpstreamFailureOutcomes ==
    { Outcome(BfvFetchFailedResponse(r.status, fetchText(r).text)) :
        r \in { x \in PrimaryResults : ~x.rejects /\ ~fetchText(x).ok } }
    \cup { Outcome(UnhandledException) }

\* C3: a missing url, an unparseable url, a scheme other than https and a host
\* that is not allow-listed each end in a client error (a 4xx JSON answer with
\* an error text) whose status and error differ from those of the other three
\* classes and from those of an upstream fetch failure.
C3_ValidationErrorsDistinct ==
    (pc = "done" /\ FailureClass(req.url) # "none")
    => /\ resp.kind = "json"
       /\ resp.status \in 400..499
       /\ resp.error # ""
       /\ net = <<>>
       /\ \A other \in UrlParams :
            FailureClass(other) \notin {"none", FailureClass(req.url)}
            => Outcome(validate(other)) # Outcome(resp)
       /\ Outcome(resp) \notin UpstreamFailureOutcomes

C3_Witness ==
    /\ pc = "done"
    /\ FailureClass(req.url) = "HostNotAllowed"
    /\ resp.kind = "json"
    /\ \E other \in UrlParams : FailureClass(other) = "UnsupportedScheme"
    /\ \E other \in UrlParams : FailureClass(other) = "InvalidUrl"
    /\ \E other \in UrlParams : FailureClass(other) = "MissingParameter"

\* C4 (as claimed): a webcal:// url on an allow-listed host is accepted, and
\* the primary fetch goes to the same URL with the scheme https.
C4_WebcalRewritten ==
    (/\ pc # "idle"
     /\ req.url.kind = "url"
     /\ req.url.protocol = "webcal:"
     /\ OnAllowList(req.url.hostname))
    => /\ Len(net) >= 1
       /\ net[1].phase = "primary"
       /\ net[1].url = [req.url EXCEPT !.protocol = "https:"]
       /\ resp # OnlyHttpsResponse

\* C5 (as claimed): when the primary fetch yields no 2xx answer, by a non-2xx
\* status or by a rejected fetch, the request ends with the 502 "BFV fetch
\* failed" JSON answer carrying the upstream status, and neither a pagination
\* fetch nor the extractor runs.
C5_PrimaryFailureIsReported ==
    (pc = "done" /\ PrimaryFailed)
    => /\ resp.kind = "json"
       /\ resp.status = 502
       /\ resp.error = "BFV fetch failed"
       /\ net[1].state = "settled" => resp.upstream = net[1].status
       /\ Len(net) = 1
       /\ ~extractorInput.called

\* C6: the upstream text embedded in an error answer is at most 1200
\* characters long, however long the upstream body is.
C6_ErrorSnippetBounded ==
    resp.kind \in {"json", "exception"} => Len(resp.text) <= 1200

C6_Witness ==
    /\ pc = "done"
    /\ resp.status = 502
    /\ Len(net[1].text) > 1200
    /\ Len(resp.text) > 0
    /\ resp.text # net[1].text

\* the HTML of the primary page followed by the first k pagination pages
PrimaryPlusPages(k) ==
    combine(net[1].text, [i \in 1..k |-> PageFetches[i].text]).combinedHtml

\* C7 (as claimed): when the fetch of pagination page k fails (non-2xx or a
\* rejected fetch), the request still succeeds and the extractor is handed the
\* primary page plus the pages 0..k-1 fetched before.
C7_PageFailureKeepsGathered ==
    \A k \in 0..(Len(PageFetches) - 1) :
        (\/ PageFetches[k + 1].state = "rejected"
         \/ PageFetches[k + 1].state = "settled" /\ ~PageFetches[k + 1].ok)
        => /\ pc = "done"
           /\ Succeeded
           /\ extractorInput.called
           /\ extractorInput.html = PrimaryPlusPages(k)

\* C8: when the load-more URL, given or derived, does not parse or has a host
\* that is not allow-listed, no pagination fetch is issued and the request is
\* answered successfully from the primary page alone.
C8_BadMoreUrlSkipsPagination ==
    (/\ Len(net) >= 1
     /\ net[1].state = "settled" /\ net[1].ok /\ ~looksLikeIcs(net[1].text)
     /\ Truthy(loc.moreUrl)
     /\ (loc.moreUrl.kind # "url" \/ ~OnAllowList(loc.moreUrl.hostname)))
    => /\ Len(PageFetches) = 0
       /\ pc = "done"
       /\ Succeeded
       /\ extractorInput.called
       /\ extractorInput.html = net[1].text

C8_Witness ==
    /\ pc = "done"
    /\ loc.moreUrl.kind = "url"
    /\ loc.moreUrl.hostname = EvilExampleCom
    /\ Succeeded
    /\ Len(net) = 1
    /\ extractorInput.html = net[1].text

\* the page size in the words of the claim: the size parameter when it is a
\* positive integer, 5 otherwise
ClaimedSize(moreUrl) ==
    LET got == searchParamsGet(moreUrl.query, "size")
    IN  IF ~got.null /\ Len(got.v) > 0 /\ ~Number(got.v).nan /\ Number(got.v).val > 0
        THEN Number(got.v).val
        ELSE 5

\* C9 (as claimed): a loader run issues at most 12 page fetches, and the k-th
\* carries from = k * size, size being the size parameter of the load-more URL
\* or 5 when that is absent or not a positive integer.
C9_AtMost12PagesFromBySize ==
    /\ Len(PageFetches) <= 12
    /\ \A k \in 0..(Len(PageFetches) - 1) :
          searchParamsGet(PageFetches[k + 1].url.query, "from").v
            = String(Num(k * ClaimedSize(loc.moreUrl)))

\* page i of the run stops the loader: its fetch failed, its body is shorter
\* than 50 characters, or an earlier page of the run had the same body
StopsLoader(i) ==
    /\ PageFetches[i].state # "pending"
    /\ \/ PageFetches[i].state = "rejected"
       \/ ~PageFetches[i].ok
       \/ Len(PageFetches[i].text) < 50
       \/ \E j \in 1..(i - 1) : PageFetches[j].text = PageFetches[i].text

\* C10: the loader stops at the first page whose fetch fails, whose body is
\* shorter than 50 characters or whose body was seen before in the run: no page
\* is fetched after it and it is not appended to the accumulated pages; every
\* other answered page is appended.  When page 0 and page 1 return the same
\* (sufficient) body, there are exactly two fetches and the body counts once.
C10_LoaderStopsAtFirstBadPage ==
    /\ \A i \in 1..Len(PageFetches) :
          StopsLoader(i)
          => /\ i = Len(PageFetches)
             /\ ld.parts = [j \in 1..(i - 1) |-> PageFetches[j].text]
             /\ extractorInput.called
             /\ extractorInput.html \in {net[1].text, PrimaryPlusPages(i - 1)}
    /\ \A i \in 1..Len(PageFetches) :
          (PageFetches[i].state = "settled" /\ ~StopsLoader(i))
          => ld.parts[i] = PageFetches[i].text
    /\ (/\ Len(PageFetches) >= 2
        /\ PageFetches[2].state = "settled" /\ PageFetches[2].ok
        /\ PageFetches[2].text = PageFetches[1].text)
       => /\ Len(PageFetches) = 2
          /\ ld.parts = <<PageFetches[1].text>>
          /\ extractorInput.html = PrimaryPlusPages(1)

C10_Witness ==
    /\ pc = "done"
    /\ Len(PageFetches) = 2
    /\ PageFetches[2].state = "settled" /\ PageFetches[2].ok
    /\ Len(PageFetches[2].text) >= 50
    /\ PageFetches[2].text = PageFetches[1].text
    /\ ld.parts = <<PageFetches[1].text>>

\* the fetch logged as e did not yield a 2xx answer
FetchFailed(e) ==
    e.state = "rejected" \/ (e.state = "settled" /\ ~e.ok)

\* C11: no failed fetch is re-issued.  A fetch that failed, the primary one or
\* a pagination page, is the last fetch of its request: the request has ended,
\* no later fetch exists, and no two fetches of a request where the earlier
\* one failed go to the same URL.
C11_NoFetchAfterFailure ==
    /\ \A i \in 1..Len(net) :
          FetchFailed(net[i]) => (i = Len(net) /\ pc = "done")
    /\ \A i, j \in 1..Len(net) :
          (i < j /\ FetchFailed(net[i])) => net[j].url # net[i].url
    /\ PrimaryFailed => Len(PageFetches) = 0

C11_Witness ==
    /\ pc = "done"
    /\ Len(PageFetches) = 3
    /\ PageFetches[3].state = "settled"
    /\ ~PageFetches[3].ok
    /\ Len(PageFetches[3].text) >= MinPageLength
    /\ PageFetches[3].text \notin {PageFetches[1].text, PageFetches[2].text}

(***************************************************************************)
(* route.ts: dates.  A Date is the number of seconds since 2025-01-01      *)
(* 00:00:00 local time; the model covers the years 2025 to 2027, which     *)
(* have 365 days each.                                                     *)
(***************************************************************************)
DaysBefore == <<0, 31, 59, 90, 120, 151, 181, 212, 243, 273, 304, 334, 365>>

\* new Date(Y, Mo - 1, D, H, Mi, S): out-of-range days, hours, minutes and
\* seconds carry over
NewDate(Y, Mo, D, H, Mi, S) ==
    (((Y - 2025) * 365 + DaysBefore[Mo] + D - 1) * 24 + H) * 3600 + Mi * 60 + S

\* new Date(d.getTime() + minutes * 60_000)
addMinutes(d, minutes) == d + minutes * 60

\* String(n).padStart(2, "0")
pad(n) == IF n < 10 THEN <<"0">> \o NatToString(n) ELSE NatToString(n)

\* year, month, day, hours, minutes, "00"
formatIcsLocal(dt) ==
    LET day == (dt \div 86400) % 365
        Mo == CHOOSE m \in 1..12 : DaysBefore[m] <= day /\ day < DaysBefore[m + 1]
    IN  NatToString(2025 + (dt \div 86400) \div 365) \o pad(Mo)
        \o pad(day - DaysBefore[Mo] + 1) \o <<"T">>
        \o pad((dt % 86400) \div 3600) \o pad((dt % 3600) \div 60) \o <<"0", "0">>

\* Date.prototype.toISOString: one text per instant
toISOString(dt) == <<"T">> \o NatToString(dt) \o <<"Z">>

uidFrom(summary, start) == sha1(toISOString(start) \o <<"|">> \o summary)

(***************************************************************************)
(* route.ts: parseAllFromHtml.  The HTML is the sequence of its candidate  *)
(* rows, one per match of the date/time expression (lines 291-299), each   *)
(* with what the scan reads off its text window:                           *)
(*   dd, mm, yyyy, hh, mi   the captured numbers                           *)
(*   afterTime              the window text after the time (line 313)      *)
(*   head                   cleanBfvSummary(textWindow.slice(0, 220))      *)
(*   place                  extractLocationFromTextWindow(textWindow)      *)
(* Summaries are over letters, blanks, "-", "|", "'" and punctuation, with *)
(* no digits, markup, "/" or ":" and no word that is a roman numeral,      *)
(* "Uhr" or a data- attribute: the rules of lines 134-147 do not apply.    *)
(***************************************************************************)
\* umlauts and sharp s are written in ASCII
HOME_FALLBACK_LOCATION ==
    <<"B","S","A"," ","F","e","l","d","b","e","r","g","s","t","r","a","s","s","e",","," ","F","e","l","d","b","e","r","g","s","t","r","."," ","6","5",","," ","8","1","8","2","5"," ","M","u","e","n","c","h","e","n">>
Auswaerts == <<"A","u","s","w","a","e","r","t","s">>

\* lines 126-130, 152 and 154-155; /\s*-\s*/ -> " - " followed by
\* /\s{2,}/ -> " " is every "-" set between blanks, then runs of blanks merged
cleanBfvSummary(s) ==
    LET t == trim(strip(squash(s, WhiteSpace), {"'", "|", " ", "-"}))
    IN  squash(replaceAll(replaceAll(t, "|", <<" ">>), "-", <<" ", "-", " ">>),
               WhiteSpace)

\* lower case, then every run of characters other than a-z0-9 becomes a blank
normalizeTeamName(input) ==
    LET t == toLowerCase(input)
    IN  squash(t, Range(t) \ (Range(LOWER) \cup Range(DIGITS)))

\* the slug after "mannschaften", else the last but one path segment
teamNameFromBfvTeamUrl(teamUrl) ==
    LET parts == SelectSeq(teamUrl.path, LAMBDA p : Len(p) > 0)
        at == { i \in 1..Len(parts) : parts[i] = <<"m","a","n","n","s","c","h","a","f","t","e","n">> }
        k == IF at = {} THEN Len(parts) - 1
             ELSE (CHOOSE i \in at : \A j \in at : i <= j) + 1
    IN  IF NewURL(teamUrl).threw \/ k < 1 \/ k > Len(parts) THEN <<>>
        ELSE replaceAll(parts[k], "-", <<" ">>)

isHomeGame(summary, teamHint) ==
    LET parts == split(summary, <<" ", "-", " ">>)
        hostN == normalizeTeamName(parts[1])
        teamN == normalizeTeamName(teamHint)
    IN  /\ Len(parts) >= 2
        /\ Len(teamN) > 0
        /\ \/ hostN = teamN
           \/ startsWith(hostN, teamN) \/ startsWith(teamN, hostN)
           \/ includes(hostN, teamN) \/ includes(teamN, hostN)

EventMinutes == 90

\* lines 288-297: the locals a call of parseAllFromHtml starts with, whatever
\* the call before left behind
\* a call that goes on with the seen-set of the call before
FreshLocals_kept(before) == [NoLocalsYet EXCEPT !.seen = before.seen]

FreshLocals(before) == NoLocalsYet

\* a scan that never finds a uid in the seen-set
isDuplicate_never(uid, seen) == FALSE

\* seen.has(uid)
isDuplicate(uid, seen) == uid \in seen

\* a filter that looks for the words as written, capitals untouched
isSeasonHistory_cased(summary) ==
    \/ includes(summary, <<"h","i","s","t","o","r","i","e">>)
    \/ includes(summary, <<"s","a","i","s","o","n">>)

\* lines 322-325: sumLower.includes("historie") || sumLower.includes("saison")
isSeasonHistory(summary) ==
    \/ includes(toLowerCase(summary), <<"h","i","s","t","o","r","i","e">>)
    \/ includes(toLowerCase(summary), <<"s","a","i","s","o","n">>)

\* one pass of the loop of lines 299-356 over the candidate row
scanRow(row, teamHint, st) ==
    LET start == NewDate(row.yyyy, row.mm, row.dd, row.hh, row.mi, 0)
        first == cleanBfvSummary(row.afterTime)
        summary == IF Len(first) > 0 THEN first ELSE row.head
        uid == uidFrom(summary, start)
        summaryClean == cleanBfvSummary(summary)
        home == isHomeGame(summaryClean, teamHint)
        location == IF Len(row.place) > 0 THEN row.place
                    ELSE IF home THEN HOME_FALLBACK_LOCATION ELSE Auswaerts
        s1 == [st EXCEPT !.matches = @ + 1]
    IN  IF Len(summary) = 0 THEN s1
        ELSE IF isSeasonHistory(summary)
        THEN [s1 EXCEPT !.skippedSeasonHistory = @ + 1]
        ELSE IF isDuplicate(uid, st.seen) THEN [s1 EXCEPT !.skippedDupes = @ + 1]
        ELSE [s1 EXCEPT
                !.seen = @ \cup {uid},
                !.events = Append(@, [uid |-> uid, start |-> start,
                                      end |-> addMinutes(start, EventMinutes),
                                      summary |-> summaryClean,
                                      location |-> location])]

RECURSIVE scanRows(_, _, _)
scanRows(html, teamHint, st) ==
    IF Len(html) = 0 THEN st
    ELSE scanRows(Tail(html), teamHint, scanRow(html[1], teamHint, st))

\* events.sort((a, b) => a.start.getTime() - b.start.getTime()): stable
RECURSIVE sortByStart(_)
sortByStart(events) ==
    IF Len(events) <= 1 THEN events
    ELSE LET rest == sortByStart(Tail(events))
             k == Cardinality({ i \in 1..Len(rest) : rest[i].start < events[1].start })
         IN  SubSeq(rest, 1, k) \o <<events[1]>> \o SubSeq(rest, k + 1, Len(rest))

\* the locals of the call when it returns
parseAllFromHtml(html, teamUrl, before) ==
    LET st == scanRows(html, teamNameFromBfvTeamUrl(teamUrl), FreshLocals(before))
    IN  [st EXCEPT !.events = sortByStart(@)]

(***************************************************************************)
(* SpecExtractor: calls of parseAllFromHtml, one after the other           *)
(***************************************************************************)
MaxCalls == 3

Row(dd, hh, afterTime, place) ==
    [dd |-> dd, mm |-> 3, yyyy |-> 2025, hh |-> hh, mi |-> 30,
     afterTime |-> afterTime, head |-> <<>>, place |-> place]

SternUrl == Url("https:", WwwBfvDe, <<<<"m","a","n","n","s","c","h","a","f","t","e","n">>, <<"f","c","-","s","t","e","r","n">>, TeamId>>, <<>>)

\* the arguments of the calls: row lists in which a fixture comes once, twice
\* (written otherwise and with a venue) or three times, at one or several
\* times of day, beside rows of strangers, a season block, a row whose summary
\* comes from the head of the window and a row without summary; and team
\* URLs with the slug after "mannschaften", without such a segment (the hint
\* is the last but one segment) or unparseable
ExtractorInputs ==
    LET SternHome == Row(1, 10, <<"F","C"," ","S","t","e","r","n"," ","-"," ","S","V"," ","A","l","p","h","a">>, <<>>)
        SternHomeAgain == Row(1, 10, <<" ","F","C"," "," ","S","t","e","r","n","-","S","V"," ","A","l","p","h","a"," ","|">>, <<"S","p","o","r","t","p","a","r","k">>)
        SternHomeLater == Row(1, 12, <<"F","C"," ","S","t","e","r","n"," ","-"," ","S","V"," ","A","l","p","h","a">>, <<>>)
        SternAway == Row(1, 9, <<"S","V"," ","B","e","t","a"," ","-"," ","F","C"," ","S","t","e","r","n",","," ","P","o","k","a","l">>, <<>>)
        Strangers == Row(2, 9, <<"T","S","V"," ","G","a","m","m","a"," ","-"," ","S","C"," ","D","e","l","t","a">>, <<>>)
        SeasonBlock == Row(2, 9, <<"S","a","i","s","o","n"," ","H","i","s","t","o","r","i","e">>, <<>>)
        HeadOnly == [Row(40, 23, <<" ", "|">>, <<>>) EXCEPT !.head = <<"T","u","r","n","i","e","r">>]
        NoSummary == Row(3, 9, <<"-", " ">>, <<>>)
        HistoryBlock == Row(1, 10, <<"S","p","i","e","l","-","H","I","S","T","O","R","I","E"," ","|"," ","F","C"," ","S","t","e","r","n">>, <<>>)
        StrayUrl == Url("https:", WwwBfvDe, <<<<"g","a","m","m","a">>, TeamId>>, <<>>)
        short == { <<>>, <<SternHome, SternHomeAgain>>, <<SternHomeAgain, SternHome>>,
                   <<SternHome, SternHomeLater>>, <<SternHomeLater, SternAway>>,
                   <<Strangers, SeasonBlock>>,
                   <<SeasonBlock, HistoryBlock, SeasonBlock, SternHome>> }
                 \cup { <<r>> : r \in { SternHome, SternHomeAgain, SternHomeLater,
                                        SternAway, Strangers, SeasonBlock, HeadOnly,
                                        NoSummary } }
        long == { <<SternHome, SternHomeAgain, SternHome>>,
                  <<SternHomeLater, SternHomeAgain, SternAway, SternHome>>,
                  <<Strangers, SternHomeAgain, SeasonBlock, NoSummary, SternHome>> }
    IN  { [html |-> h, teamUrl |-> SternUrl] : h \in short \cup long }
        \cup { [html |-> h, teamUrl |-> t] : h \in long, t \in {StrayUrl, GarbageString} }

\* GET line 506: a request calls parseAllFromHtml once
CallParseAllFromHtml(html, teamUrl) ==
    /\ exLog.calls < MaxCalls
    /\ ex' = [html |-> html, teamUrl |-> teamUrl,
              st |-> parseAllFromHtml(html, teamUrl, ex.st)]
    /\ exLog' = [calls |-> exLog.calls + 1,
                 first |-> IF exLog.calls = 0 THEN ex' ELSE exLog.first,
                 mixed |-> \/ exLog.mixed
                           \/ /\ exLog.calls > 0
                              /\ <<html, teamUrl>> # <<exLog.first.html, exLog.first.teamUrl>>]
    /\ UNCHANGED <<routeVars, icsVars, pageVars>>

NextExtractor ==
    \E i \in ExtractorInputs : CallParseAllFromHtml(i.html, i.teamUrl)

SpecExtractor == Init /\ [][NextExtractor]_vars

\* the event row i of the latest call yields when scanned on its own, if any
RowEvents(i) ==
    scanRow(ex.html[i], teamNameFromBfvTeamUrl(ex.teamUrl), NoLocalsYet).events

\* the rows of the latest call that yield an event, and those of them no
\* earlier row shares the uid with
Candidates == { i \in 1..Len(ex.html) : RowEvents(i) # <<>> }
FirstOfUid ==
    { i \in Candidates :
        \A j \in Candidates : j < i => RowEvents(j)[1].uid # RowEvents(i)[1].uid }

\* C12: in the output of one extractor run no two events have the same uid;
\* of the candidate rows deriving one uid the event of the first in scan order
\* is kept (with that row's fields), and every later one is dropped and
\* counted in skippedDupes.
C12_UidsUniqueFirstWins ==
    LET E == ex.st.events
    IN  /\ \A a, b \in 1..Len(E) : a # b => E[a].uid # E[b].uid
        /\ { E[a] : a \in 1..Len(E) } = { RowEvents(i)[1] : i \in FirstOfUid }
        /\ ex.st.skippedDupes = Cardinality(Candidates \ FirstOfUid)
        /\ ex.st.seen = { E[a].uid : a \in 1..Len(E) }

C12_Witness ==
    /\ Len(ex.html) = 3
    /\ Cardinality(Candidates) = 3
    /\ ex.st.skippedDupes = 2
    /\ Len(ex.st.events) = 1
    /\ ex.html[2].place # <<>>
    /\ ex.st.events[1].location = HOME_FALLBACK_LOCATION

\* C13: a call of the extractor with the arguments of the first call yields
\* the events and the counters of the first call, whatever calls came in
\* between.
C13_SameInputSameEvents ==
    (/\ exLog.calls >= 2
     /\ ex.html = exLog.first.html
     /\ ex.teamUrl = exLog.first.teamUrl)
    => /\ ex.st.events = exLog.first.st.events
       /\ ex.st.skippedDupes = exLog.first.st.skippedDupes
       /\ ex.st.skippedSeasonHistory = exLog.first.st.skippedSeasonHistory
       /\ ex.st.matches = exLog.first.st.matches

C13_Witness ==
    /\ exLog.calls = 3
    /\ exLog.mixed
    /\ ex.html = exLog.first.html
    /\ ex.teamUrl = exLog.first.teamUrl
    /\ Len(ex.st.events) = 3
    /\ ex.st.skippedDupes = 1

(***************************************************************************)
(* route.ts: the serializer                                                *)
(***************************************************************************)
escapeIcsValue(s) ==
    replaceAll(replaceAll(replaceAll(replaceAll(s,
        "\\", <<"\\", "\\">>), "\n", <<"\\", "n">>), ";", <<"\\", ";">>),
        ",", <<"\\", ",">>)

\* the lines of one event
eventLines(e, dtstamp) ==
    << <<"B","E","G","I","N",":","V","E","V","E","N","T">>,
       <<"U","I","D",":">> \o escapeIcsValue(e.uid),
       <<"D","T","S","T","A","M","P",":">> \o dtstamp,
       <<"D","T","S","T","A","R","T",":">> \o formatIcsLocal(e.start),
       <<"D","T","E","N","D",":">> \o formatIcsLocal(e.end),
       <<"S","U","M","M","A","R","Y",":">> \o escapeIcsValue(e.summary),
       <<"L","O","C","A","T","I","O","N",":">> \o escapeIcsValue(e.location),
       <<"E","N","D",":","V","E","V","E","N","T">> >>

RECURSIVE concat(_)
concat(seqs) == IF Len(seqs) = 0 THEN <<>> ELSE seqs[1] \o concat(Tail(seqs))

\* lines.join("\r\n") + "\r\n", now being the time of the call
buildIcs(events, now) ==
    LET lines ==
          << <<"B","E","G","I","N",":","V","C","A","L","E","N","D","A","R">>, <<"V","E","R","S","I","O","N",":","2",".","0">>,
             <<"P","R","O","D","I","D",":","-","/","/","F","C","S","t","e","r","n","P","i","t","c","h","P","l","a","n","n","e","r","/","/","B","F","V"," ","H","T","M","L"," ","t","o"," ","I","C","S"," ","(","A","U","T","O","_","M","O","R","E","+","C","L","E","A","N",")","/","/","D","E">>,
             <<"C","A","L","S","C","A","L","E",":","G","R","E","G","O","R","I","A","N">> >>
          \o concat([i \in 1..Len(events) |-> eventLines(events[i], formatIcsLocal(now))])
          \o << <<"E","N","D",":","V","C","A","L","E","N","D","A","R">> >>
    IN  concat([i \in 1..Len(lines) |-> lines[i] \o <<"\r", "\n">>])

(***************************************************************************)
(* bfv/page.tsx: the calendar parser of the client                         *)
(***************************************************************************)
\* raw.replace(/\r\n/g, "\n").split("\n"), then a line that starts with a
\* blank or a tab is appended, without its leading white space, to the line
\* before it
unfoldIcsLines(raw) ==
    LET lines == split(join(split(raw, <<"\r", "\n">>), "\n"), <<"\n">>)
        add(out, line) ==
            IF Len(line) > 0 /\ line[1] \in {" ", "\t"} /\ Len(out) > 0
            THEN [out EXCEPT ![Len(out)] = @ \o trimStart(line)]
            ELSE Append(out, line)
        RECURSIVE walk(_, _)
        walk(out, k) == IF k > Len(lines) THEN out ELSE walk(add(out, lines[k]), k + 1)
    IN  walk(<<>>, 1)

NoDate == [null |-> TRUE, t |-> 0, utc |-> FALSE]

\* a reading of date-times that makes a date of any text
parseDt_lenient(v) == [NoDate EXCEPT !.null = FALSE]

\* /^(\d{4})(\d{2})(\d{2})T(\d{2})(\d{2})(\d{2})(Z)?$/, then new Date(...) or
\* new Date(Date.UTC(...)): t counts in the zone the text is read in
parseDt(v) ==
    LET n(a, b) == DigitsVal(SubSeq(v, a, b))
    IN  IF /\ Len(v) \in {15, 16}
           /\ \A i \in (1..8) \cup (10..15) : IsDigit(v[i])
           /\ v[9] = "T"
           /\ Len(v) = 16 => v[16] = "Z"
        THEN [null |-> FALSE, utc |-> Len(v) = 16,
              t |-> NewDate(n(1, 4), n(5, 6), n(7, 8), n(10, 11), n(12, 13), n(14, 15))]
        ELSE NoDate

\* line.split(":").slice(1).join(":").trim()
afterColon(line) == trim(join(Tail(split(line, <<":">>)), ":"))

NoEvent == [inEvent |-> FALSE, uid |-> <<>>, summary |-> <<>>, location |-> <<>>,
            dtStart |-> NoDate, dtEnd |-> NoDate, games |-> <<>>]

\* a BEGIN:VEVENT that leaves the fields as they are
beginEvent_keep(s) == [s EXCEPT !.inEvent = TRUE]

\* lines 104-109: inEvent = true, and every field is reset
beginEvent(s) == [NoEvent EXCEPT !.inEvent = TRUE, !.games = s.games]

\* one pass of the loop of lines 102-138
parseLine(line, s) ==
    IF startsWith(line, <<"B","E","G","I","N",":","V","E","V","E","N","T">>)
    THEN beginEvent(s)
    ELSE IF startsWith(line, <<"E","N","D",":","V","E","V","E","N","T">>)
    THEN [s EXCEPT
            !.inEvent = FALSE,
            !.games = IF /\ s.inEvent /\ Len(s.uid) > 0 /\ Len(s.summary) > 0
                         /\ ~s.dtStart.null /\ ~s.dtEnd.null
                      THEN Append(@, [uid |-> s.uid, summary |-> s.summary,
                                      start |-> s.dtStart, end |-> s.dtEnd,
                                      location |-> s.location, isHome |-> "null"])
                      ELSE @]
    ELSE IF ~s.inEvent THEN s
    ELSE IF startsWith(line, <<"U","I","D",":">>)
    THEN [s EXCEPT !.uid = trim(SubSeq(line, 5, Len(line)))]
    ELSE IF startsWith(line, <<"S","U","M","M","A","R","Y",":">>)
    THEN [s EXCEPT !.summary = trim(SubSeq(line, 9, Len(line)))]
    ELSE IF startsWith(line, <<"L","O","C","A","T","I","O","N",":">>)
    THEN [s EXCEPT !.location = trim(SubSeq(line, 10, Len(line)))]
    ELSE IF startsWith(line, <<"D","T","S","T","A","R","T">>)
    THEN [s EXCEPT !.dtStart = parseDt(afterColon(line))]
    ELSE IF startsWith(line, <<"D","T","E","N","D">>)
    THEN [s EXCEPT !.dtEnd = parseDt(afterColon(line))]
    ELSE s

\* the games of a calendar text; a location of "" stands for null
parseIcs(icsText) ==
    LET lines == unfoldIcsLines(icsText)
        RECURSIVE walk(_, _)
        walk(s, k) == IF k > Len(lines) THEN s ELSE walk(parseLine(lines[k], s), k + 1)
    IN  walk(NoEvent, 1).games

(***************************************************************************)
(* SpecIcs: a calendar document is answered by the route, built by         *)
(* buildIcs or passed through from upstream, and parsed by the client      *)
(***************************************************************************)
MaxBlocks == 2
MaxTextLen == 2

\* a VEVENT block of an upstream calendar: each field is <<>> when the block
\* has no such line, else <<value>>
Block(uid, dtstart, dtend, summary) ==
    [uid |-> uid, dtstart |-> dtstart, dtend |-> dtend, summary |-> summary]

At1030 == <<"2","0","2","5","0","3","0","1","T","1","0","3","0","0","0">>
At1200 == <<"2","0","2","5","0","3","0","1","T","1","2","0","0","0","0">>

Blocks ==
    { Block(<<<<"u","1">>>>, <<At1030>>, <<At1200>>, <<<<"F","C"," ","S","t","e","r","n"," ","-"," ","S","V"," ","A","l","p","h","a">>>>),
      Block(<<<<"u","2">>>>, <<At1030 \o <<"Z">> >>, <<At1200 \o <<"Z">> >>, <<<<"Z","u","l","u">>>>),
      Block(<<<<"u","3">>>>, <<At1030>>, <<>>, <<<<"N","o"," ","e","n","d">>>>),
      Block(<<<<"u","4">>>>, <<>>, <<At1200>>, <<<<"N","o"," ","s","t","a","r","t">>>>),
      Block(<<<<"u","5">>>>, <<<<"2","0","2","5","-","0","3","-","0","1"," ","1","0",":","3","0">>>>, <<At1200>>, <<<<"B","a","d"," ","s","t","a","r","t">>>>),
      Block(<<<<"u","6">>>>, <<At1030>>, <<<<"2","0","2","5","0","3","0","1","T","1","2","0","0">>>>, <<<<"B","a","d"," ","e","n","d">>>>),
      Block(<<<<"u","7">>>>, <<At1200>>, <<At1030>>, <<<<"E","n","d"," ","f","i","r","s","t">>>>),
      Block(<<>>, <<At1030>>, <<At1200>>, <<<<"N","o"," ","u","i","d">>>>) }

\* an upstream calendar of the blocks, its lines ended by eol; every field
\* line of a block is there once or not at all.  A part that is no block
\* says so in a field kind: "stray" are field lines (with a LOCATION line)
\* outside any event, "strayEnd" the same followed by an END:VEVENT, "open" a
\* BEGIN:VEVENT and field lines without END:VEVENT
calendarText(blocks, eol) ==
    LET kind(b) == IF "kind" \in DOMAIN b THEN b.kind ELSE "block"
        blockLines(b) ==
            (IF kind(b) \in {"block", "open"}
             THEN << <<"B","E","G","I","N",":","V","E","V","E","N","T">> >> ELSE <<>>)
            \o (IF kind(b) # "block"
                THEN << <<"L","O","C","A","T","I","O","N",":","N","o","w","h","e","r","e">> >>
                ELSE <<>>)
            \o [i \in 1..Len(b.uid) |-> <<"U","I","D",":">> \o b.uid[i]]
            \o [i \in 1..Len(b.dtstart) |->
                  <<"D","T","S","T","A","R","T",";","T","Z","I","D","=","E","u","r","o","p","e","/","B","e","r","l","i","n",":">> \o b.dtstart[i]]
            \o [i \in 1..Len(b.dtend) |-> <<"D","T","E","N","D",":">> \o b.dtend[i]]
            \o [i \in 1..Len(b.summary) |-> <<"S","U","M","M","A","R","Y",":">> \o b.summary[i]]
            \o (IF kind(b) \in {"block", "strayEnd"}
                THEN << <<"E","N","D",":","V","E","V","E","N","T">> >> ELSE <<>>)
        lines == << <<"B","E","G","I","N",":","V","C","A","L","E","N","D","A","R">> >>
                 \o concat([i \in 1..Len(blocks) |-> blockLines(blocks[i])])
                 \o << <<"E","N","D",":","V","C","A","L","E","N","D","A","R">> >>
    IN  concat([i \in 1..Len(lines) |-> lines[i] \o eol])

UpstreamDocs ==
    { [NoDoc EXCEPT !.via = "passthrough", !.blocks = bs,
                    !.text = calendarText(bs, eol)] :
        bs \in UNION { [1..n -> Blocks] : n \in 1..MaxBlocks },
        eol \in { <<"\n">>, <<"\r", "\n">> } }

\* one block whose SUMMARY value is broken after its first k characters by a
\* line break and one blank or tab, and the same calendar with nothing folded
FoldedDocs ==
    LET value == <<"F","C"," ","S","t","e","r","n"," ","-"," ","S","V"," ","A","l","p","h","a">>
        b == Block(<<<<"u","1">>>>, <<At1030>>, <<At1200>>, <<value>>)
        folded(k, break, blank) ==
            [b EXCEPT !.summary = <<SubSeq(value, 1, k) \o break \o <<blank>>
                                    \o SubSeq(value, k + 1, Len(value))>>]
    IN  { [NoDoc EXCEPT !.via = "passthrough", !.blocks = <<b>>,
                        !.text = calendarText(<<folded(k, break, blank)>>, <<"\r", "\n">>),
                        !.unfolded = calendarText(<<b>>, <<"\r", "\n">>)] :
            k \in {5, 8},
            break \in { <<"\n">>, <<"\r", "\n">>, <<"\r">> },
            blank \in {" ", "\t"} }

\* calendars with lines outside the events: field lines before, between and
\* after the blocks, an END:VEVENT that no BEGIN:VEVENT opened, and a
\* BEGIN:VEVENT that is not closed before the next one
StrayDocs ==
    LET stray(kind) ==
            [kind |-> kind, uid |-> <<<<"z","z">>>>, dtstart |-> <<At1030>>,
             dtend |-> <<At1200>>, summary |-> <<<<"S","t","r","a","y">>>>]
        bs == { b \in Blocks : b.summary[1] \in { <<"F","C"," ","S","t","e","r","n"," ","-"," ","S","V"," ","A","l","p","h","a">>, <<"N","o"," ","u","i","d">>,
                                                  <<"N","o"," ","e","n","d">> } }
        layouts == { << stray("stray"), b1, stray("stray"), b2, stray("stray") >> :
                        b1 \in bs, b2 \in bs }
                   \cup { << stray("strayEnd"), b1 >> : b1 \in bs }
                   \cup { << b1, stray("strayEnd") >> : b1 \in bs }
                   \cup { << [b1 EXCEPT !.uid = <<<<"z","z">>>>, !.dtend = <<At1200>>] @@ [kind |-> "open"],
                             b2 >> : b1 \in bs, b2 \in bs }
                   \cup { << stray("stray"), stray("strayEnd") >> }
    IN  { [NoDoc EXCEPT !.via = "passthrough", !.parts = ps,
                        !.blocks = SelectSeq(ps, LAMBDA p : "kind" \notin DOMAIN p),
                        !.text = calendarText(ps, <<"\n">>)] : ps \in layouts }

\* GET lines 526-535 for an extractor result at the time now
AnswerBuilt(html, teamUrl, now) ==
    /\ doc = NoDoc
    /\ LET events == parseAllFromHtml(html, teamUrl, NoLocalsYet).events
       IN  doc' = [NoDoc EXCEPT !.via = "buildIcs", !.events = events,
                                !.text = buildIcs(events, now)]
    /\ UNCHANGED <<games, routeVars, extractorVars, pageVars>>

\* buildIcs for one event with the text s as its summary and location
SerializeText(s) ==
    /\ doc = NoDoc
    /\ LET e == [uid |-> uidFrom(<<>>, 0), start |-> 0,
                 end |-> addMinutes(0, EventMinutes), summary |-> s, location |-> s]
       IN  doc' = [NoDoc EXCEPT !.via = "text", !.events = <<e>>,
                                !.text = buildIcs(<<e>>, 0)]
    /\ UNCHANGED <<games, routeVars, extractorVars, pageVars>>

\* GET lines 467-476: an upstream calendar is answered as it came
AnswerPassthrough(d) ==
    /\ doc = NoDoc
    /\ looksLikeIcs(d.text) = TRUE
    /\ doc' = d
    /\ UNCHANGED <<games, routeVars, extractorVars, pageVars>>

\* page.tsx line 533: const parsed = parseIcs(icsText)
ApplyParseIcs ==
    /\ doc # NoDoc
    /\ ~games.loaded
    /\ games' = [loaded |-> TRUE, list |-> parseIcs(doc.text)]
    /\ UNCHANGED <<doc, routeVars, extractorVars, pageVars>>

\* the texts over backslash, comma, semicolon, newline and a letter
Texts == UNION { [1..n -> {"\\", ",", ";", "\n", "a"}] : n \in 1..MaxTextLen }

NextIcs ==
    \/ \E i \in ExtractorInputs, now \in {0, NewDate(2025, 12, 31, 23, 59, 59)} :
          AnswerBuilt(i.html, i.teamUrl, now)
    \/ \E s \in Texts : SerializeText(s)
    \/ \E d \in UpstreamDocs \cup FoldedDocs \cup StrayDocs : AnswerPassthrough(d)
    \/ ApplyParseIcs

SpecIcs == Init /\ [][NextIcs]_vars

\* the date-time texts of the upstream blocks that are well formed
GoodStamps == { At1030, At1200, At1030 \o <<"Z">>, At1200 \o <<"Z">> }

\* the block lacks DTSTART or DTEND, or has one that is no date-time
BadDates(b) ==
    \/ Len(b.dtstart) = 0 \/ Len(b.dtend) = 0
    \/ b.dtstart[1] \notin GoodStamps \/ b.dtend[1] \notin GoodStamps

CompleteBlock(b) == Len(b.uid) = 1 /\ Len(b.summary) = 1 /\ ~BadDates(b)

\* an upstream calendar, as written (no line folded), has been parsed
ParsedUpstream == games.loaded /\ doc.via = "passthrough" /\ doc.unfolded = <<>>

\* C14 (as claimed): every event of the extractor and every game of the ICS
\* parser has start < end, and a VEVENT block that gives no end yields a game
\* that ends 90 minutes after its start.
C14_StartBeforeEnd ==
    /\ \A i \in 1..Len(doc.events) : doc.events[i].start < doc.events[i].end
    /\ games.loaded =>
         \A i \in 1..Len(games.list) : games.list[i].start.t < games.list[i].end.t
    /\ ParsedUpstream =>
         \A i \in 1..Len(doc.blocks) :
            (/\ Len(doc.blocks[i].dtend) = 0
             /\ CompleteBlock([doc.blocks[i] EXCEPT !.dtend = <<At1200>>]))
            => \E j \in 1..Len(games.list) :
                  /\ games.list[j].uid = doc.blocks[i].uid[1]
                  /\ games.list[j].end.t
                       = addMinutes(games.list[j].start.t, EventMinutes)

\* C15: of an upstream calendar, a block whose DTSTART or DTEND is missing or
\* unparseable yields no game and parsing still returns, while the complete
\* blocks of the document yield their games, in document order.
C15_BadDatesDroppedOthersKept ==
    ParsedUpstream =>
      LET complete == SelectSeq(doc.blocks, CompleteBlock)
      IN  /\ \A i \in 1..Len(doc.blocks), j \in 1..Len(games.list) :
                BadDates(doc.blocks[i])
                => games.list[j].summary # doc.blocks[i].summary[1]
          /\ [j \in 1..Len(games.list) |->
                <<games.list[j].uid, games.list[j].summary, games.list[j].start>>]
             = [i \in 1..Len(complete) |->
                  <<complete[i].uid[1], complete[i].summary[1],
                    parseDt(complete[i].dtstart[1])>>]

C15_Witness ==
    /\ ParsedUpstream
    /\ Len(doc.blocks) = 2
    /\ Len(doc.blocks[1].dtend) = 0
    /\ CompleteBlock(doc.blocks[2])
    /\ Len(games.list) = 1
    /\ games.list[1].uid = doc.blocks[2].uid[1]

\* C16 (as claimed): a block with valid DTSTART, DTEND and SUMMARY but no UID
\* line yields a game, with a uid of at most 200 characters made of its start
\* and its summary.
C16_MissingUidSynthesized ==
    ParsedUpstream =>
      \A i \in 1..Len(doc.blocks) :
         (Len(doc.blocks[i].uid) = 0 /\ Len(doc.blocks[i].summary) = 1
          /\ ~BadDates(doc.blocks[i]))
         => \E j \in 1..Len(games.list) :
               /\ games.list[j].summary = doc.blocks[i].summary[1]
               /\ Len(games.list[j].uid) \in 1..200
               /\ includes(games.list[j].uid, <<"-">> \o games.list[j].summary)

\* C17 (as claimed): a calendar with a value folded by a line break (CRLF, LF
\* or CR) and one blank or tab parses to the games of the same calendar with
\* the value on one line.
C17_UnfoldingPreservesValue ==
    (games.loaded /\ doc.unfolded # <<>>) => games.list = parseIcs(doc.unfolded)

\* C18 (as claimed): a text over backslash, comma, semicolon, newline and
\* ordinary characters that the serializer wrote as SUMMARY and LOCATION
\* comes back from the parser as the same text.
C18_EscapeRoundTrip ==
    (games.loaded /\ doc.via = "text")
    => /\ Len(games.list) = 1
       /\ games.list[1].summary = doc.events[1].summary
       /\ games.list[1].location = doc.events[1].location

\* C19 (as claimed): parsing the document built from an extractor result
\* gives one game per event, in the same order, with the uid, the summary
\* text, the start and the end of the event.
C19_ParserReadsSerializerOutput ==
    (games.loaded /\ doc.via = "buildIcs")
    => /\ Len(games.list) = Len(doc.events)
       /\ \A i \in 1..Len(doc.events) :
             /\ i <= Len(games.list)
             /\ games.list[i].uid = doc.events[i].uid
             /\ games.list[i].summary = doc.events[i].summary
             /\ games.list[i].start = [null |-> FALSE, utc |-> FALSE,
                                       t |-> doc.events[i].start]
             /\ games.list[i].end = [null |-> FALSE, utc |-> FALSE,
                                     t |-> doc.events[i].end]

\* the words of the team identity, and whether a side of a summary has one
TeamTokens(teamUrl) ==
    Range(split(normalizeTeamName(teamNameFromBfvTeamUrl(teamUrl)), <<" ">>)) \ {<<>>}
SharesToken(side, teamUrl) ==
    \E tok \in TeamTokens(teamUrl) : includes(normalizeTeamName(side), tok)

\* C20 (as claimed): an event whose summary sides share no token with the
\* team identity is of unknown home/away status, and the extractor does not
\* make it an away game: it does not get the away venue "Auswaerts".
C20_UnknownNotTurnedAway ==
    \A i \in 1..Len(ex.st.events) :
       LET sides == split(ex.st.events[i].summary, <<" ", "-", " ">>)
       IN  (\A k \in 1..Len(sides) : ~SharesToken(sides[k], ex.teamUrl))
           => ex.st.events[i].location # Auswaerts

(***************************************************************************)
(* C21: season and history blocks                                          *)
(***************************************************************************)
\* the candidate summary of row i of the latest call: the cleaned text after
\* the time, else the cleaned head of the window
CandidateSummary(i) ==
    LET first == cleanBfvSummary(ex.html[i].afterTime)
    IN  IF Len(first) > 0 THEN first ELSE ex.html[i].head

\* the rows discarded as season or history blocks
SeasonRows ==
    { i \in 1..Len(ex.html) :
        \/ ContainsIgnoreCase(CandidateSummary(i), <<"h","i","s","t","o","r","i","e">>)
        \/ ContainsIgnoreCase(CandidateSummary(i), <<"s","a","i","s","o","n">>) }

\* C21: no event of the extractor has a summary containing "historie" or
\* "saison" in any letter case; every candidate row discarded for that
\* reason adds one to skippedSeasonHistory and nothing to the seen-set.
C21_SeasonHistoryDiscarded ==
    LET E == ex.st.events
        r == ex.html
    IN  /\ \A a \in 1..Len(E) :
              /\ ~ContainsIgnoreCase(E[a].summary, <<"h","i","s","t","o","r","i","e">>)
              /\ ~ContainsIgnoreCase(E[a].summary, <<"s","a","i","s","o","n">>)
        /\ ex.st.skippedSeasonHistory = Cardinality(SeasonRows)
        /\ \A i \in SeasonRows :
              uidFrom(CandidateSummary(i),
                      NewDate(r[i].yyyy, r[i].mm, r[i].dd, r[i].hh, r[i].mi, 0))
                  \notin ex.st.seen
        /\ Cardinality(ex.st.seen) = Len(E)
        /\ ex.st.matches = Len(r)
        /\ Len(E) + ex.st.skippedDupes + ex.st.skippedSeasonHistory <= Len(r)

\* a call over two season blocks (one of them twice) and a fixture at the
\* time of day of one of them
C21_Witness ==
    /\ Len(ex.html) = 4
    /\ Cardinality(SeasonRows) = 3
    /\ ex.st.skippedSeasonHistory = 3
    /\ ex.st.skippedDupes = 0
    /\ Len(ex.st.events) = 1
    /\ Cardinality(ex.st.seen) = 1

(***************************************************************************)
(* C22: the debug switch                                                   *)
(***************************************************************************)
\* C22 (as claimed): a request with debug=1 that passes validation and whose
\* primary fetch succeeds is answered with the diagnostic JSON payload and
\* not with a calendar document, whether the fetched body is ICS or HTML.
C22_DebugAnswersDiagnostics ==
    (/\ pc = "done"
     /\ req.debug
     /\ validate(req.url) = NoResponse
     /\ Len(net) >= 1
     /\ net[1].state = "settled"
     /\ net[1].ok)
    => /\ resp.kind = "debug"
       /\ resp.via # "passthrough"

(***************************************************************************)
(* C23: the loader fetches one page at a time                              *)
(***************************************************************************)
\* C23: at most one pagination fetch is in flight at any time, and page N+1
\* is requested only after the answer of page N has been received and none
\* of its stop conditions (failure, short body, repeated hash) applies.
C23_PaginationSequential ==
    /\ Cardinality({ i \in 1..Len(PageFetches) : PageFetches[i].state = "pending" }) <= 1
    /\ \A i \in 1..Len(PageFetches) :
          /\ PageFetches[i].page = i - 1
          /\ PageFetches[i].state = "pending" => i = Len(PageFetches) /\ pc = "awaitPage"
          /\ i < Len(PageFetches)
             => /\ PageFetches[i].state = "settled"
                /\ ~StopsLoader(i)
    /\ Len(net) >= 1 /\ net[1].state = "pending" => Len(net) = 1

C23_Witness ==
    /\ pc = "awaitPage"
    /\ Len(PageFetches) = 4
    /\ PageFetches[4].state = "pending"
    /\ \A i \in 1..3 : PageFetches[i].state = "settled" /\ ~StopsLoader(i)

(***************************************************************************)
(* mapLimit, page.tsx lines 220-233, and the callback of loadGamesDay,     *)
(* lines 599-621.  ml holds, for the running call,                         *)
(*   idx       the shared counter (0-based, as in the code)                *)
(*   workers   per worker "waiting" (on the callback of index at), "done"  *)
(*             or "rejected"                                               *)
(*   cb        per item the callback fn(items[i]): "none" before the call, *)
(*             "fetch" and "text" at its two awaits, "returned" or         *)
(*             "rejected", with the worker that called it                  *)
(*   results   the results array, Hole where nothing was assigned          *)
(*   calls     the indices in the order they were taken                    *)
(*   promise   the promise mapLimit returned                               *)
(***************************************************************************)
Hole == [of |-> 0, ok |-> FALSE, hole |-> TRUE]

\* a pool with one worker more than asked for
poolSize_plus(limit) == limit + 1

\* Array.from({ length: Math.max(1, limit) }, ...)
poolSize(limit) == IF limit < 1 THEN 1 ELSE limit

\* lines 225-227: worker w tests idx < items.length, takes i = idx++ and
\* calls fn(items[i]), which runs up to its fetch; else the worker ends
take(m, w) ==
    IF m.idx < Len(m.items)
    THEN [m EXCEPT !.idx = @ + 1,
                   !.workers[w] = [state |-> "waiting", at |-> m.idx],
                   !.cb[m.idx + 1] = [state |-> "fetch", by |-> w],
                   !.calls = Append(@, m.idx)]
    ELSE [m EXCEPT !.workers[w] = [state |-> "done", at |-> -1]]

\* Promise.all(workers): rejected with the first worker that rejects,
\* fulfilled when every worker has ended
promiseAll(m) ==
    IF m.promise # "pending" THEN m
    ELSE IF \E w \in 1..Len(m.workers) : m.workers[w].state = "rejected"
    THEN [m EXCEPT !.promise = "rejected"]
    ELSE IF \A w \in 1..Len(m.workers) : m.workers[w].state = "done"
    THEN [m EXCEPT !.promise = "resolved"]
    ELSE m

\* the workers are started one after the other, each up to its first await
RECURSIVE startWorkers(_, _)
startWorkers(m, w) ==
    IF w > Len(m.workers) THEN m ELSE startWorkers(take(m, w), w + 1)

mapLimit(items, limit, via) ==
    promiseAll(startWorkers(
        [NoPool EXCEPT !.phase = "called", !.via = via, !.items = items,
                       !.limit = limit,
                       !.workers = [w \in 1..poolSize(limit) |->
                                       [state |-> "new", at |-> -1]],
                       !.cb = [i \in 1..Len(items) |-> [state |-> "none", by |-> 0]],
                       !.results = [i \in 1..Len(items) |-> Hole],
                       !.promise = "pending"], 1))

\* line 227: the callback of worker w returns r; results[i] = r, and the
\* worker goes round its loop
callbackReturns(m, w, ok) ==
    LET i == m.workers[w].at
    IN  promiseAll(take([m EXCEPT
                           !.cb[i + 1].state = "returned",
                           !.results[i + 1] = [of |-> m.items[i + 1], ok |-> ok,
                                               hole |-> FALSE]], w))

(***************************************************************************)
(* SpecMapLimit                                                            *)
(***************************************************************************)
MaxItems == 6
DayScanLimit == 4

\* loadGamesDay: without teams it throws (lines 582-587), else line 599
loadGamesDay(teamsWithIcs) ==
    /\ ml.phase = "idle"
    /\ ml' = IF Len(teamsWithIcs) = 0 THEN [NoPool EXCEPT !.phase = "threw", !.via = "day"]
             ELSE mapLimit(teamsWithIcs, DayScanLimit, "day")
    /\ UNCHANGED <<hm, lay, ap, routeVars, extractorVars, icsVars>>

\* a call of mapLimit with another limit
CallMapLimit(items, limit) ==
    /\ ml.phase = "idle"
    /\ ml' = mapLimit(items, limit, "direct")
    /\ UNCHANGED <<hm, lay, ap, routeVars, extractorVars, icsVars>>

\* line 602-603: the fetch of worker w's callback settles
FetchSettles(w, outcome) ==
    /\ ml.phase = "called"
    /\ w \in 1..Len(ml.workers)
    /\ ml.workers[w].state = "waiting"
    /\ ml.cb[ml.workers[w].at + 1].state = "fetch"
    /\ ml' = CASE outcome = "rejects" ->
                    promiseAll([ml EXCEPT !.workers[w].state = "rejected",
                                          !.cb[ml.workers[w].at + 1].state = "rejected"])
               [] outcome = "notOk" -> callbackReturns(ml, w, FALSE)
               [] OTHER -> [ml EXCEPT !.cb[ml.workers[w].at + 1].state = "text"]
    /\ UNCHANGED <<hm, lay, ap, routeVars, extractorVars, icsVars>>

\* lines 605-620: res.text() settles (a failure reads as ""), the text is
\* parsed and the rows are returned
TextSettles(w) ==
    /\ ml.phase = "called"
    /\ w \in 1..Len(ml.workers)
    /\ ml.workers[w].state = "waiting"
    /\ ml.cb[ml.workers[w].at + 1].state = "text"
    /\ ml' = callbackReturns(ml, w, TRUE)
    /\ UNCHANGED <<hm, lay, ap, routeVars, extractorVars, icsVars>>

SpecMapLimit ==
    Init /\ [][\/ (\E n \in 0..MaxItems : loadGamesDay([i \in 1..n |-> 10 + i]))
                \/ (\E n \in 0..MaxItems, limit \in {-1, 0, 1, 2, 5} :
                       CallMapLimit([i \in 1..n |-> 10 + i], limit))
                \/ (\E w \in 1..(MaxItems + 1), outcome \in {"ok", "notOk", "rejects"} :
                       FetchSettles(w, outcome))
                \/ (\E w \in 1..(MaxItems + 1) : TextSettles(w))]_vars

(***************************************************************************)
(* C24, C29: the worker pool                                               *)
(***************************************************************************)
\* the items whose callback is between its call and its return
InFlight == { i \in 1..Len(ml.cb) : ml.cb[i].state \in {"fetch", "text"} }

\* the items whose feed is being fetched
Fetching == { i \in 1..Len(ml.cb) : ml.cb[i].state = "fetch" }

\* C24: in the day-level scan at most 4 team feed fetches are in flight at
\* any moment, and a worker starts its next team only after the
\* fetch-and-parse callback of its current team has completed.
C24_DayScanAtMostFourInFlight ==
    ml.via = "day"
    => /\ Cardinality(Fetching) <= 4
       /\ Cardinality(InFlight) <= 4
       /\ \A w \in 1..Len(ml.workers) :
             Cardinality({ i \in InFlight : ml.cb[i].by = w }) <= 1
       /\ \A a, b \in 1..Len(ml.calls) :
             (a < b /\ ml.cb[ml.calls[a] + 1].by = ml.cb[ml.calls[b] + 1].by)
             => ml.cb[ml.calls[a] + 1].state = "returned"

\* six teams: the fifth and the sixth were taken by workers whose first
\* team was done, and four fetches are in flight again
C24_Witness ==
    /\ ml.via = "day"
    /\ Len(ml.items) = 6
    /\ Len(ml.calls) = 6
    /\ Cardinality(Fetching) = 4
    /\ Cardinality({ i \in 1..6 : ml.cb[i].state = "returned" }) = 2

\* the call has come to rest: no callback is in flight
AtRest == ml.phase = "called" /\ InFlight = {}

\* C29 (as claimed): under every interleaving of the workers mapLimit
\* processes every item exactly once: no index is taken twice, none is
\* skipped, results[i] is the result of fn(items[i]) for every i, and when no
\* callback rejects the promise resolves only after all callbacks have
\* completed; a limit below 1 behaves as 1, and there may be no items.
C29_EveryItemExactlyOnce ==
    ml.phase = "called"
    => /\ \A a, b \in 1..Len(ml.calls) : a # b => ml.calls[a] # ml.calls[b]
       /\ \A i \in 1..Len(ml.items) :
             ~ml.results[i].hole
             => ml.results[i].of = ml.items[i] /\ ml.cb[i].state = "returned"
       /\ Len(ml.workers) = (IF ml.limit < 1 THEN 1 ELSE ml.limit)
       /\ ml.promise = "resolved"
          => \A i \in 1..Len(ml.items) :
                ml.cb[i].state = "returned" /\ ~ml.results[i].hole
       /\ AtRest
          => /\ { ml.calls[a] : a \in 1..Len(ml.calls) } = 0..(Len(ml.items) - 1)
             /\ \A i \in 1..Len(ml.items) :
                   ml.cb[i].state = "returned" => ~ml.results[i].hole
             /\ (\A i \in 1..Len(ml.items) : ml.cb[i].state # "rejected")
                => ml.promise = "resolved"

(***************************************************************************)
(* C25: event boundaries                                                   *)
(***************************************************************************)
\* C25: field lines outside a BEGIN:VEVENT .. END:VEVENT pair never influence
\* an emitted event, an END:VEVENT without an open BEGIN:VEVENT emits nothing,
\* and every field of an emitted event comes from the lines of its own block:
\* the games are those of the complete blocks, each with its block's values
\* and nothing else.
C25_OnlyOwnBlockLinesCount ==
    (games.loaded /\ doc.parts # <<>>)
    => LET complete == SelectSeq(doc.blocks, CompleteBlock)
       IN  /\ games.list
                = [i \in 1..Len(complete) |->
                     [uid |-> complete[i].uid[1], summary |-> complete[i].summary[1],
                      start |-> parseDt(complete[i].dtstart[1]),
                      end |-> parseDt(complete[i].dtend[1]),
                      location |-> <<>>, isHome |-> "null"]]
           /\ \A j \in 1..Len(games.list) :
                 /\ games.list[j].uid # <<"z","z">>
                 /\ games.list[j].summary # <<"S","t","r","a","y">>
                 /\ games.list[j].location # <<"N","o","w","h","e","r","e">>

\* stray field lines, a complete block, stray field lines, a block without
\* UID line, stray field lines: one game
C25_Witness ==
    /\ games.loaded
    /\ Len(doc.parts) = 5
    /\ Len(doc.blocks) = 2
    /\ CompleteBlock(doc.blocks[1])
    /\ Len(doc.blocks[2].uid) = 0
    /\ Len(games.list) = 1

(***************************************************************************)
(* bfv/page.tsx: home and away, lines 143-212 and 490-519, and the         *)
(* home-only filter of loadGamesSingle and loadGamesDay.  Names and        *)
(* summaries are ASCII text (no umlauts, no en dash), so that the Unicode  *)
(* steps of normalizeForMatch and the second rule of splitHomeAway do      *)
(* nothing.                                                                *)
(***************************************************************************)
\* lower case, then every run of characters other than a-z0-9 is one blank,
\* none at the ends
normalizeForMatch(s) ==
    LET t == toLowerCase(s)
    IN  squash(t, Range(t) \ (Range(LOWER) \cup Range(DIGITS)))

\* the set of words of the normalized names that are no stop word, no
\* u<digits> and at least 3 characters long
buildMatchTokens(names) ==
    LET STOPWORDS == { <<"f","c">>, <<"t","s","v">>, <<"s","v">>, <<"s","c">>, <<"s","g">>, <<"j","f","g">>, <<"e","v">>, <<"e">>, <<"v">>,
                       <<"m","u","e","n","c","h","e","n">>, <<"m","u","n","c","h","e","n">>, <<"m","u","e","n","c","h">>, <<"m">>, <<"i","i">>, <<"i","i","i">>, <<"i","v">>,
                       <<"i">>, <<"u">>, <<"j","u","n","i","o","r","e","n">>, <<"j","u","n","i","o","r","i","n","n","e","n">> }
        ageGroup(w) == /\ Len(w) \in {2, 3} /\ w[1] = "u"
                       /\ \A k \in 2..Len(w) : IsDigit(w[k])
        words(n) == Range(split(normalizeForMatch(n), <<" ">>))
    IN  { w \in UNION { words(names[k]) : k \in 1..Len(names) } :
            /\ Len(w) > 0 /\ w \notin STOPWORDS /\ ~ageGroup(w) /\ Len(w) >= 3 }

\* the two sides of a summary, or null: the text before the first comma is
\* split at " - ", else at its first hyphen
splitHomeAway(summary) ==
    LET first == split(summary, <<",">>)[1]
        teamPart == IF Len(first) > 0 THEN first ELSE summary
        byDash == split(teamPart, <<" ", "-", " ">>)
        hy == indexOf(teamPart, <<"-">>, 1)
        null == [null |-> TRUE, left |-> <<>>, right |-> <<>>]
        sides(l, r) == [null |-> FALSE, left |-> trim(l), right |-> trim(r)]
    IN  IF Len(byDash) >= 2 /\ Len(byDash[1]) > 0 /\ Len(byDash[2]) > 0
        THEN sides(byDash[1], byDash[2])
        ELSE IF hy = 0 THEN null
        ELSE LET l == trim(SubSeq(teamPart, 1, hy - 1))
                 r == trim(SubSeq(teamPart, hy + 1, Len(teamPart)))
             IN  IF Len(l) > 0 /\ Len(r) > 0 THEN sides(l, r) ELSE null

\* lines 491-518: isHome of every game, "true", "false" or "null"
addHomeInfo(rawGames, clubName, teamName) ==
    LET tokens == buildMatchTokens(<<clubName, teamName>>)
        matchSide(s) == \E t \in tokens : includes(normalizeForMatch(s), t)
        isHome(g) ==
            LET parts == splitHomeAway(g.summary)
                leftMatch == matchSide(parts.left)
                rightMatch == matchSide(parts.right)
            IN  IF ~parts.null
                THEN IF leftMatch /\ ~rightMatch THEN "true"
                     ELSE IF rightMatch /\ ~leftMatch THEN "false"
                     ELSE IF leftMatch /\ rightMatch THEN "true"
                     ELSE "null"
                ELSE IF matchSide(g.location) THEN "true" ELSE "null"
    IN  [i \in 1..Len(rawGames) |-> [rawGames[i] EXCEPT !.isHome = isHome(rawGames[i])]]

\* a filter that keeps the home games only
homeFilter_strict(parsed, homeOnly) ==
    IF homeOnly THEN SelectSeq(parsed, LAMBDA g : g.isHome = "true") ELSE parsed

\* homeOnly ? parsed.filter((g) => g.isHome !== false) : parsed
homeFilter(parsed, homeOnly) ==
    IF homeOnly THEN SelectSeq(parsed, LAMBDA g : g.isHome # "false") ELSE parsed

(***************************************************************************)
(* SpecHome: the games of one team are marked, filtered and shown          *)
(***************************************************************************)
\* the games parseIcs returned, earliest first, and the names of club and
\* team: games with the team as host, as guest, with a word of the name on
\* either side, of strangers, without sides but with a venue, and with a
\* hyphen that is not set between blanks; identities with one match token,
\* with two and with none
HomeInputs ==
    LET game(uid, dd, hh, summary, location) ==
            [uid |-> uid, summary |-> summary, location |-> location, isHome |-> "null",
             start |-> [null |-> FALSE, utc |-> FALSE, t |-> NewDate(2025, 3, dd, hh, 30, 0)],
             end |-> [null |-> FALSE, utc |-> FALSE,
                      t |-> addMinutes(NewDate(2025, 3, dd, hh, 30, 0), EventMinutes)]]
        all == << game(<<"g","1">>, 1, 10, <<"F","C"," ","S","t","e","r","n"," ","-"," ","S","V"," ","A","l","p","h","a">>, <<>>),
                  game(<<"g","2">>, 1, 9, <<"S","V"," ","A","l","p","h","a"," ","-"," ","F","C"," ","S","t","e","r","n">>, <<>>),
                  game(<<"g","3">>, 2, 10, <<"A","l","p","h","a"," ","G","a","m","m","a"," ","-"," ","S","t","e","r","n"," ","B","e","t","a">>, <<>>),
                  game(<<"g","4">>, 1, 12, <<"T","S","V"," ","G","a","m","m","a"," ","-"," ","S","C"," ","D","e","l","t","a">>, <<>>),
                  game(<<"g","5">>, 2, 9, <<"T","u","r","n","i","e","r">>, <<"S","p","o","r","t","p","a","r","k"," ","S","t","e","r","n">>),
                  game(<<"g","6">>, 1, 8, <<"S","V"," ","B","e","t","a","-","A","l","p","h","a"," ","G","a","m","m","a",","," ","P","o","k","a","l"," ","-"," ","R","u","n","d","e">>, <<>>) >>
        pick(S) == SelectSeq(all, LAMBDA g : g \in S)
    IN  [games |-> { pick(S) : S \in SUBSET Range(all) },
         names |-> { [club |-> <<"F","C"," ","S","t","e","r","n"," ","M","u","e","n","c","h","e","n">>, team |-> <<"F","C"," ","S","t","e","r","n"," ","U","9">>],
                     [club |-> <<"S","V"," ","A","l","p","h","a"," ","B","e","t","a">>, team |-> <<"A","l","p","h","a","-","B","e","t","a"," ","I","I">>],
                     [club |-> <<"F","C">>, team |-> <<"U","9"," ","I","I">>] },
         days |-> { NewDate(2025, 3, 1, 0, 0, 0) \div 86400,
                    NewDate(2025, 3, 2, 0, 0, 0) \div 86400 }]

\* lines 533-578 of loadGamesSingle (single) and lines 606-646 of
\* loadGamesDay for one team (day): parsed, marked, filtered and sorted
LoadGames(mode, parsed, clubName, teamName, homeOnly, dayStr) ==
    /\ hm.phase = "idle"
    /\ LET marked == addHomeInfo(parsed, clubName, teamName)
           filtered == homeFilter(marked, homeOnly)
           rows == IF mode = "single" THEN filtered
                   ELSE SelectSeq(filtered, LAMBDA g : g.start.t \div 86400 = dayStr)
           RECURSIVE sort(_)
           sort(r) ==
               IF Len(r) <= 1 THEN r
               ELSE LET rest == sort(Tail(r))
                        k == Cardinality({ i \in 1..Len(rest) : rest[i].start.t < r[1].start.t })
                    IN  SubSeq(rest, 1, k) \o <<r[1]>> \o SubSeq(rest, k + 1, Len(rest))
       IN  hm' = [phase |-> "loaded", mode |-> mode, clubName |-> clubName,
                  teamName |-> teamName, homeOnly |-> homeOnly,
                  dayStr |-> IF mode = "single" THEN 0 ELSE dayStr,
                  parsed |-> parsed, marked |-> marked, shown |-> sort(rows)]
    /\ UNCHANGED <<ml, lay, ap, routeVars, extractorVars, icsVars>>

SpecHome ==
    Init /\ [][\E g \in HomeInputs.games, n \in HomeInputs.names, homeOnly \in BOOLEAN :
                   \/ LoadGames("single", g, n.club, n.team, homeOnly, 0)
                   \/ \E d \in HomeInputs.days :
                         LoadGames("day", g, n.club, n.team, homeOnly, d)]_vars

(***************************************************************************)
(* C26, C27: home games                                                    *)
(***************************************************************************)
\* the match tokens of the identity that the normalized text contains
TokenHits(text, tokens) == { t \in tokens : includes(normalizeForMatch(text), t) }

\* at least 2 token hits, or 1 hit if the identity has only a single token
EnoughTokenHits(text, tokens) ==
    /\ tokens # {}
    /\ Cardinality(TokenHits(text, tokens)) >= (IF Cardinality(tokens) = 1 THEN 1 ELSE 2)

\* C26 (as claimed): a game with a host text is classified home exactly when
\* at least 2 distinct match tokens of the team are contained in the
\* normalized host text, or at least 1 when the identity has a single token;
\* an identity without match tokens is never classified home.
C26_HomeByTokenHits ==
    hm.phase = "loaded"
    => LET tokens == buildMatchTokens(<<hm.clubName, hm.teamName>>)
       IN  \A i \in 1..Len(hm.marked) :
              /\ ~splitHomeAway(hm.marked[i].summary).null
                 => (hm.marked[i].isHome = "true"
                     <=> EnoughTokenHits(splitHomeAway(hm.marked[i].summary).left, tokens))
              /\ tokens = {} => hm.marked[i].isHome # "true"

\* C27: with the home-only filter on, a game is removed from the proposal
\* list exactly when its isHome is false: games with isHome true and with
\* isHome unknown are kept; with the filter off no game is removed.  (In the
\* day plan the list is that of the games of the day.)
C27_HomeOnlyRemovesAwayOnly ==
    hm.phase = "loaded"
    => LET listed == IF hm.mode = "single" THEN hm.marked
                     ELSE SelectSeq(hm.marked, LAMBDA g : g.start.t \div 86400 = hm.dayStr)
       IN  /\ \A i \in 1..Len(listed) :
                 (listed[i] \notin Range(hm.shown))
                 <=> (hm.homeOnly /\ listed[i].isHome = "false")
           /\ Range(hm.shown) \subseteq Range(listed)
           /\ Len(hm.shown) = Cardinality(Range(hm.shown))

\* home-only: a home game and a game of unknown side are shown, an away game
\* is not
C27_Witness ==
    /\ hm.phase = "loaded"
    /\ hm.homeOnly
    /\ \E a, b, c \in 1..Len(hm.marked) :
          /\ hm.marked[a].isHome = "true" /\ hm.marked[a] \in Range(hm.shown)
          /\ hm.marked[b].isHome = "null" /\ hm.marked[b] \in Range(hm.shown)
          /\ hm.marked[c].isHome = "false" /\ hm.marked[c] \notin Range(hm.shown)

(***************************************************************************)
(* calendar/page.tsx: the overlap layout of the list view, lines 365-402   *)
(* and 1260-1279.  Times are hours of the day; a box is [id, start, end],  *)
(* the id being the place of the booking among the bookings of the pitch.  *)
(***************************************************************************)
LIST_START_HOUR == 9
LIST_END_HOUR == 22

\* a.start < b.end && a.end > b.start
boxesOverlap(a, b) == a.start < b.end /\ a.end > b.start

\* the position [colIndex, colCount] of every box, by id
computeOverlapLayout(boxes) ==
    LET RECURSIVE sort(_)
        sort(r) ==
            IF Len(r) <= 1 THEN r
            ELSE LET rest == sort(Tail(r))
                     k == Cardinality({ i \in 1..Len(rest) : rest[i].start < r[1].start })
                 IN  SubSeq(rest, 1, k) \o <<r[1]>> \o SubSeq(rest, k + 1, Len(rest))
        sorted == sort(boxes)
        \* lines 379-387: the first column that is free at ev.start, else a new one
        place(st, ev) ==
            LET free == { c \in 1..Len(st.colsEnd) : ev.start >= st.colsEnd[c] }
                col == IF free = {} THEN Len(st.colsEnd) + 1
                       ELSE CHOOSE c \in free : \A d \in free : c <= d
            IN  [colsEnd |-> IF col > Len(st.colsEnd) THEN Append(st.colsEnd, ev.end)
                             ELSE [st.colsEnd EXCEPT ![col] = ev.end],
                 colIndexById |-> [st.colIndexById EXCEPT ![ev.id] = col - 1]]
        RECURSIVE assign(_, _)
        assign(st, k) == IF k > Len(sorted) THEN st ELSE assign(place(st, sorted[k]), k + 1)
        colIndexById == assign([colsEnd |-> <<>>,
                                colIndexById |-> [i \in { b.id : b \in Range(boxes) } |-> 0]],
                               1).colIndexById
        \* lines 391-399: the largest column among the box and the boxes it overlaps
        maxCol(a) ==
            LET cols == { colIndexById[a.id] }
                        \cup { colIndexById[b.id] : b \in { x \in Range(boxes) :
                                                              x.id # a.id /\ boxesOverlap(a, x) } }
            IN  CHOOSE c \in cols : \A d \in cols : d <= c
    IN  [i \in { b.id : b \in Range(boxes) } |->
            LET a == CHOOSE b \in Range(boxes) : b.id = i
            IN  [colIndex |-> colIndexById[i], colCount |-> maxCol(a) + 1]]

(***************************************************************************)
(* SpecLayout: the bookings of one pitch and day are laid out              *)
(***************************************************************************)
MaxBoxes == 4

\* lines 1265-1278: the boxes of the bookings of the pitch, clamped to the
\* hours of the list, those that are empty then left out
ListViewLayout(dayBookings) ==
    /\ lay.phase = "idle"
    /\ LET clamp(h) == IF h < LIST_START_HOUR THEN LIST_START_HOUR
                       ELSE IF h > LIST_END_HOUR THEN LIST_END_HOUR ELSE h
           boxes == SelectSeq([i \in 1..Len(dayBookings) |->
                                  [id |-> i, start |-> clamp(dayBookings[i][1]),
                                   end |-> clamp(dayBookings[i][2])]],
                              LAMBDA x : x.end > x.start)
       IN  lay' = [phase |-> "laid", boxes |-> boxes, pos |-> computeOverlapLayout(boxes)]
    /\ UNCHANGED <<ml, hm, ap, routeVars, extractorVars, icsVars>>

\* up to MaxBoxes bookings of the pitch, with the same hours or not, some
\* beginning before or ending after the hours of the list
SpecLayout ==
    Init /\ [][\E n \in 1..MaxBoxes :
                 \E dayBookings \in [1..n -> { <<8, 11>>, <<10, 14>>, <<10, 12>>, <<12, 13>>,
                                               <<13, 23>>, <<7, 9>>, <<11, 12>> }] :
                    ListViewLayout(dayBookings)]_vars

\* C28 (as claimed): any two bookings of a pitch and day whose clamped
\* intervals overlap are shown side by side: their horizontal spans
\* [colIndex/colCount, (colIndex+1)/colCount) do not intersect; and every box
\* has 0 <= colIndex < colCount.
C28_OverlappingBoxesSideBySide ==
    lay.phase = "laid"
    => /\ \A a \in Range(lay.boxes) :
             /\ 0 <= lay.pos[a.id].colIndex
             /\ lay.pos[a.id].colIndex < lay.pos[a.id].colCount
       /\ \A a, b \in Range(lay.boxes) :
             (a.id # b.id /\ boxesOverlap(a, b))
             => LET p == lay.pos[a.id]
                    q == lay.pos[b.id]
                IN  ~(/\ p.colIndex * q.colCount < (q.colIndex + 1) * p.colCount
                      /\ q.colIndex * p.colCount < (p.colIndex + 1) * q.colCount)

(***************************************************************************)
(* approve/page.tsx: the approval screen, lines 80-186, with the bookings  *)
(* of Bookings.  ap holds                                                  *)
(*   role      the role of the profile                                     *)
(*   bookings  the status shown per booking, "absent" before the first     *)
(*             load                                                        *)
(*   db        the status per booking in the database                      *)
(*   busyId    the booking a decision is running for, 0 for null           *)
(*   calls     the calls of setStatus, each with the booking, the new      *)
(*             status, the status shown before the call, its position pc   *)
(*             ("session", "update", "loadAll" at its awaits; "refused",   *)
(*             "redirect", "failed", "done" when finished) and whether a   *)
(*             realtime load completed while its update was in flight      *)
(*   loads     the rows read by the calls of loadAll that are under way    *)
(*             (calls that read the same rows are taken as one)            *)
(***************************************************************************)
MaxSetStatus == 2

\* the ids of the bookings in the table
Bookings == {1, 2}

\* a failure handler that leaves the list as it is
rollback_none(bookings, bookingId) == bookings

\* lines 174-176: prev.map((b) => b.id === bookingId ? { ...b, status: "REQUESTED" } : b)
rollback(bookings, bookingId) == [bookings EXCEPT ![bookingId] = "REQUESTED"]

\* lines 59-77 and 128-130: the session is checked, the profile is there and
\* loadAll is called
OpenScreen(role, db) ==
    /\ ap.phase = "idle"
    /\ ap' = [NoScreen EXCEPT !.phase = "ready", !.role = role, !.db = db,
                              !.bookings = [b \in Bookings |-> "absent"],
                              !.loads = {db}]
    /\ UNCHANGED <<ml, hm, lay, routeVars, extractorVars, icsVars>>

\* lines 148-159: setStatus up to its first await.  An admin has the buttons
\* of a booking shown as REQUESTED, unless busyId is that booking (lines
\* 245, 265); without the role the function returns at once
setStatus(bookingId, newStatus) ==
    /\ ap.phase = "ready"
    /\ Len(ap.calls) < MaxSetStatus
    /\ ap.role = "ADMIN" => ap.bookings[bookingId] = "REQUESTED" /\ ap.busyId # bookingId
    /\ LET call == [id |-> bookingId, newStatus |-> newStatus,
                    before |-> ap.bookings[bookingId], loadedInFlight |-> FALSE,
                    pc |-> IF ap.role = "ADMIN" THEN "session" ELSE "refused"]
       IN  ap' = IF ap.role # "ADMIN" THEN [ap EXCEPT !.calls = Append(@, call)]
                 ELSE [ap EXCEPT !.calls = Append(@, call), !.busyId = bookingId,
                                 !.bookings[bookingId] = newStatus]
    /\ UNCHANGED <<ml, hm, lay, routeVars, extractorVars, icsVars>>

\* lines 161-185: call c goes on after the await it is at, which settled well
\* (ok) or not: getSession without a user leaves for /login; a failed update
\* is rolled back; after a good one the change is announced on the realtime
\* channel, whose handler calls loadAll, and the function awaits its own
\* loadAll, which shows the rows of the database unless it has an error;
\* finally busyId is null
setStatusContinues(c, ok) ==
    /\ ap.phase = "ready"
    /\ c \in 1..Len(ap.calls)
    /\ LET call == ap.calls[c]
           written == [ap.db EXCEPT ![call.id] = call.newStatus]
       IN  /\ call.pc \in {"session", "update", "loadAll"}
           /\ ap' = CASE call.pc = "session" /\ ok -> [ap EXCEPT !.calls[c].pc = "update"]
                      [] call.pc = "session" /\ ~ok ->
                            [ap EXCEPT !.calls[c].pc = "redirect", !.busyId = 0,
                                       !.phase = "left"]
                      [] call.pc = "update" /\ ok ->
                            [ap EXCEPT !.calls[c].pc = "loadAll", !.db = written,
                                       !.loads = @ \cup {written}]
                      [] call.pc = "update" /\ ~ok ->
                            [ap EXCEPT !.calls[c].pc = "failed", !.busyId = 0,
                                       !.bookings = rollback(@, call.id)]
                      [] OTHER ->
                            [ap EXCEPT !.calls[c].pc = "done", !.busyId = 0,
                                       !.bookings = IF ok THEN ap.db ELSE @]
    /\ UNCHANGED <<ml, hm, lay, routeVars, extractorVars, icsVars>>

\* lines 133-136: somebody else decides a booking that is REQUESTED in the
\* database; the change reaches the channel, and loadAll is called
RealtimeChange(bookingId, status) ==
    /\ ap.phase = "ready"
    /\ ap.db[bookingId] = "REQUESTED"
    /\ ap' = [ap EXCEPT !.db[bookingId] = status,
                        !.loads = @ \cup {[ap.db EXCEPT ![bookingId] = status]}]
    /\ UNCHANGED <<ml, hm, lay, routeVars, extractorVars, icsVars>>

\* lines 80-97: a loadAll under way has its answer, the rows it has read: on
\* an error the list stays, else setBookings(rows)
loadAllCompletes(rows, ok) ==
    /\ ap.phase = "ready"
    /\ rows \in ap.loads
    /\ ap' = [ap EXCEPT
                !.loads = @ \ {rows},
                !.bookings = IF ok THEN rows ELSE @,
                !.calls = [i \in 1..Len(@) |->
                             IF ok /\ @[i].pc = "update"
                             THEN [@[i] EXCEPT !.loadedInFlight = TRUE] ELSE @[i]]]
    /\ UNCHANGED <<ml, hm, lay, routeVars, extractorVars, icsVars>>

SpecApprove ==
    Init /\ [][\/ (\E role \in {"ADMIN", "TRAINER"},
                      db \in [Bookings -> {"REQUESTED", "APPROVED", "REJECTED"}] :
                       OpenScreen(role, db))
                \/ (\E b \in Bookings, s \in {"APPROVED", "REJECTED"} : setStatus(b, s))
                \/ (\E c \in 1..MaxSetStatus, ok \in BOOLEAN : setStatusContinues(c, ok))
                \/ (\E b \in Bookings, s \in {"APPROVED", "REJECTED"} :
                       RealtimeChange(b, s))
                \/ (\E rows \in [Bookings -> {"REQUESTED", "APPROVED", "REJECTED"}],
                       ok \in BOOLEAN : loadAllCompletes(rows, ok))]_vars

\* C30: when the update of setStatus fails, the status shown of the booking
\* is, as setStatus finishes, the one shown before the call, and busyId is
\* cleared, also when a realtime loadAll completed while the update was in
\* flight; a call of setStatus without the admin role changes nothing.
C30_FailedUpdateUndone ==
    [][/\ \A c \in 1..Len(ap.calls) :
            (ap.calls[c].pc = "update" /\ ap'.calls[c].pc = "failed")
                => /\ ap'.bookings[ap.calls[c].id] = ap.calls[c].before
                   /\ ap'.busyId = 0
       /\ (Len(ap'.calls) > Len(ap.calls) /\ ap'.calls[Len(ap'.calls)].pc = "refused")
                => /\ ap'.bookings = ap.bookings
                   /\ ap'.busyId = ap.busyId
                   /\ ap'.db = ap.db
                   /\ ap'.loads = ap.loads]_vars

\* C30 witness: a call whose update failed after a realtime loadAll had
\* completed during its flight, and the booking is shown as before the call
C30_Witness ==
    \E c \in 1..Len(ap.calls) :
        /\ ap.calls[c].pc = "failed"
        /\ ap.calls[c].loadedInFlight
        /\ ap.bookings[ap.calls[c].id] = ap.calls[c].before
        /\ ap.busyId = 0

====
